---- MODULE Spec2Model ----
(***************************************************************************)
(* Model of the fizhub hub: the bonding session state machine              *)
(* (state.Manager in internal/network/client.go) and its wiring into the   *)
(* application (cmd/fizhub, setupComponentInteractions).                    *)
(*                                                                         *)
(* Spec           : state.Manager driven by arbitrary clients of its API.  *)
(* SpecErr        : the same, with clients registering error handlers.     *)
(* SpecApp        : the wired application (initializeComponents, then MQTT *)
(*                  and HTTP tap sources, status reads).                   *)
(* SpecValidation : the session with one validateUIDs outcome per entry    *)
(*                  into Validating.                                       *)
(* SpecTaps       : concurrent HandleEvent(EventNFCTap) goroutines.        *)
(* SpecRegistry   : the MQTTBroker's device registry with its sweeper.     *)
(* SpecList       : the registry read through GetDevices.                  *)
(* SpecHub        : registry and session wired by SetUIDHandler.           *)
(* SpecPower      : power.Manager driven by clients, its monitor and its  *)
(*                  timers.                                                *)
(* SpecWiring     : the wired application with taps as time passes.        *)
(* SpecShutdown   : the periodic tasks under cancellation and Shutdown.    *)
(* SpecDrain      : the session's validation task and Shutdown.            *)
(* SpecDecode     : register payloads decoded by messageHandler.           *)
(* SpecBond       : generateBondID applied to pairs of sessions.           *)
(* SpecStatus     : the registry fed status messages of any content.       *)
(* SpecNotify     : state.Manager with several observers per phase.        *)
(* SpecRetry      : one doWithRetry call of the HTTP client.               *)
(* SpecStale      : the session with validateUIDs goroutines in flight.    *)
(* SpecRecorder   : audio.Recorder driven by clients, with recordLoop.     *)
(* SpecRecording  : the session wired to the recorder.                     *)
(* SpecReader     : nfc.Reader under Start, Stop and its context.          *)
(***************************************************************************)
EXTENDS Integers, Sequences, FiniteSets, TLC

VARIABLES
    currentPhase,       \* Manager.currentPhase
    collectedUIDs,      \* Manager.collectedUIDs
    validAccounts,      \* Manager.validAccounts (nil is the empty sequence)
    bondID,             \* Manager.bondID (NoBondID until generated)
    subscribers,        \* Manager.subscribers : Phase -> sequence of callbacks
    errorHandlers,      \* Manager.errorHandlers
    mutex,              \* Manager.mutex: "unlocked", or "held" by a goroutine
                        \* that blocked inside a callback and never returns
    lastRet,            \* history: what the last call returned
    fired,              \* history: phase callbacks invoked by the last call
    errFired,           \* history: error handlers invoked by the last call
    validatingNotified, \* history: notifications of PhaseValidating since Reset
    rearmed,            \* history: the collection under way was started by
                        \* Reset (cleared when RecordingMessage is entered)
    appPc,              \* Application: position in Start/initializeComponents
    uidHandler,         \* MQTTBroker.uidHandler is set
    validations,        \* validateUIDs goroutines in flight (their uids)
    outcome,            \* history: what validateUIDs delivered for the
                        \* current entry into Validating
    tapWaiting,         \* uids of HandleEvent(EventNFCTap) calls waiting at
                        \* m.mutex.Lock()
    tapLog,             \* history: taps whose handler ran, in lock order
    now,                \* time.Now(), in ticks of TickSeconds
    nextSweep,          \* when monitorDevices' ticker fires next
    devices,            \* MQTTBroker.devices : deviceID -> *ReaderDevice
    lastMsg,            \* history: the last message of each known device
    listed,             \* the slice last returned by GetDevices: for each
                        \* listed deviceID, whether its pointer is still
                        \* the one in the map
    powerState,         \* power.Manager.state
    lastActivity,       \* power.Manager.lastActivity
    deepSleepTimer,     \* power.Manager.deepSleepTimer (NoTimer is nil)
    orphanTimers,       \* deadlines of armed timers that deepSleepTimer no
                        \* longer points to
    onStateChange,      \* power.Manager.onStateChange is set
    notified,           \* history: onStateChange calls of the last power
                        \* operation
    powerOp,            \* history: the last operation of the power manager
                        \* and the state it found
    monitorTick,        \* a tick waits in monitorPowerState's ticker.C
    ctxDone,            \* the context given to Application.Start is done
    sweeperStopped,     \* monitorDevices has returned
    monitorStopped,     \* monitorPowerState has returned
    shutdownReturned,   \* Application.Shutdown has returned
    lateWork,           \* history: ticks each periodic task served after
                        \* ctxDone, and the time elapsed since
    issued,             \* history: the bondIDs generateBondID returned
    retry,              \* the doWithRetry call of the HTTP client: its
                        \* position, loop variables and result
    inFlight,           \* the uids arguments of the validateUIDs
                        \* goroutines that have not delivered yet
    recorder,           \* audio.Recorder: its fields, its mutex, and the
                        \* positions of recordLoop and of a caller
    reader              \* nfc.Reader: isActive and its readLoop goroutines

vars == <<currentPhase, collectedUIDs, validAccounts, bondID,
          subscribers, errorHandlers, mutex, lastRet, fired, errFired,
          validatingNotified, rearmed, appPc, uidHandler, validations,
          outcome, tapWaiting, tapLog, now, nextSweep, devices, lastMsg,
          listed, powerState, lastActivity, deepSleepTimer, orphanTimers,
          onStateChange, notified, powerOp, monitorTick, ctxDone, sweeperStopped,
          monitorStopped, shutdownReturned, lateWork, issued, retry, inFlight,
          recorder, reader>>

sessionVars == <<currentPhase, collectedUIDs, validAccounts, bondID>>
appVars == <<appPc, uidHandler, validations>>
tapVars == <<tapWaiting, tapLog>>
regVars == <<now, nextSweep, devices, lastMsg, listed>>
\* everything outside the registry, the power manager and the periodic tasks
OtherVars == <<sessionVars, subscribers, errorHandlers, mutex, lastRet,
               fired, errFired, validatingNotified, rearmed, appVars,
               outcome, tapVars>>
powerVars == <<powerState, lastActivity, deepSleepTimer, orphanTimers,
               onStateChange, notified, powerOp, monitorTick>>
runVars == <<ctxDone, sweeperStopped, monitorStopped, shutdownReturned,
             lateWork>>
\* the collaborators modelled on their own: HTTP client, recorder, reader
compVars == <<retry, inFlight, recorder, reader>>

----------------------------------------------------------------------------
\* Bounds of the model
MaxUID == 4             \* tap identifiers are 1..MaxUID
MaxTime == 1            \* time.Now() reads a tick in 0..MaxTime
MaxSubscribers == 1     \* total number of Subscribe calls by generic clients
MaxErrorHandlers == 2   \* number of SubscribeError calls
MaxNow == 9             \* the registry's clock runs from 0 to MaxNow ticks
MaxTaps == 4            \* fiz/uid messages forwarded to the session
MaxIssued == 2          \* bondIDs generated and compared

\* Program constants
PhaseInitial == 0
PhaseCollectingUIDs == 1
PhaseValidating == 2
PhaseRecordingMessage == 3
PhaseComplete == 4
RequiredUIDs == 3       \* len(m.collectedUIDs) == 3
TicksPerSecond == 2     \* RFC3339 has one-second resolution
TickSeconds == 10       \* the registry's clock advances in steps of 10 s
LivenessTimeout == 60 \div TickSeconds   \* 60*time.Second
SweepPeriod == 30 \div TickSeconds       \* time.NewTicker(30 * time.Second)
StateActive == 0
StateIdle == 1
StateDeepSleep == 2
IdleTimeout == 2        \* config.Power.IdleTimeout, in ticks (20 s)
DeepSleepDelay == 4     \* config.Power.DeepSleepDelay, in ticks (40 s)

Phases == PhaseInitial..PhaseComplete
UIDs == 1..MaxUID
Times == 0..MaxTime
AccountLists == {<<"acct1">>}
Errors == {"validation failed", "network error"}
ErrorHandlers == {"errObsA", "errObsB"}

\* Callbacks a client may register: passive observers, and the closure the
\* application registers for PhaseValidating, which calls back into the
\* Manager (GetCollectedUIDs) before dispatching the validation.
Observers == {"obsA"}
AppValidatingCb == "appValidating"
AppRecordingCb == "appRecording"
Callbacks == Observers \cup {AppValidatingCb}

\* The Subscribe calls of the clients: an observer for any phase, or the
\* application's closure for PhaseValidating
Subscriptions ==
    (Phases \X Observers) \cup {<<PhaseValidating, AppValidatingCb>>}

\* Inbound MQTT payloads
DeviceIDs == {"readerA", "readerB"}
Registrations ==
    {[type |-> "fiz-reader", firmware |-> "1.0.0", ip |-> "10.0.0.1"],
     [type |-> "fiz-reader", firmware |-> "1.1.0", ip |-> "10.0.0.2"]}
Statuses == {"online", "offline"}
RSSIs == {-60}
TopicRegister == "fiz/register"
TopicStatus == "fiz/status"
TopicUID == "fiz/uid"

\* make(map[string]*ReaderDevice): the map with no key
NoDevices == [d \in {} |-> 0]

PowerStates == StateActive..StateDeepSleep
\* a *time.Timer: whether it will still fire, and when
NoTimer == [exists |-> FALSE, armed |-> FALSE, at |-> 0]
Timer(t) == [exists |-> TRUE, armed |-> TRUE, at |-> t]
NoBondID == <<>>        \* the empty string m.bondID starts with
NilErr == "nil"
ErrNotCollecting == "not collecting UIDs"
ErrDuplicate == "duplicate UID"
ErrNotValidating == "not in validation phase"
ErrNotRecording == "not in recording phase"
Blocked == "blocked"    \* the call never returns

\* The HTTP client's doWithRetry call.  pc is the position of the calling
\* goroutine: "none" before the call, "test" at the loop condition, "select"
\* blocked in the select between attempts, "do" inside c.do, "returned".
\* woken is the select case that woke the goroutine; log is the history of
\* the outcomes of c.do; cancelledWaiting and attemptsAtCancel record a
\* cancellation that arrived while the goroutine was blocked in the select.
CtxCanceled == "context canceled"
DoErrors == {"request failed", "unexpected status code"}
NoCall ==
    [pc |-> "none", retryCount |-> 0, retryDelay |-> 0, attempt |-> 0,
     lastErr |-> NilErr, ret |-> [err |-> NilErr, cause |-> NilErr],
     log |-> <<>>, ctxDone |-> FALSE, woken |-> "none",
     cancelledWaiting |-> FALSE, attemptsAtCancel |-> 0]

\* audio.State
AudioStateIdle == 0
AudioStateRecording == 1
AudioStatePaused == 2
AudioStateFinished == 3

\* NewRecorder.  mutex is the holder of r.mutex ("free", "loop", "caller");
\* loop is the position of the recordLoop goroutine: "none" before `go
\* r.recordLoop()`, "top" before it locks and looks at the state, "sleep" in
\* time.Sleep, "notify" inside the Finished notification with r.mutex held,
\* "exited"; elapsed is time.Since(recordingStart) in steps, up to
\* maxDuration; caller is the position of the goroutine running the
\* Recording phase callback; started and finished count the recordings
\* begun and the Finished notifications made; resumed and completed (a
\* Finished notification has moved a session to Complete) are history.
NewRecorder ==
    [state |-> AudioStateIdle, mutex |-> "free", loop |-> "none",
     elapsed |-> 0, caller |-> "none", started |-> 0, finished |-> 0,
     resumed |-> FALSE, completed |-> FALSE, ret |-> NilErr]

\* NewReader.  loops holds, per readLoop goroutine still running, the
\* number of ticks it served; ret is the result of the last Start or Stop.
NewReader ==
    [isActive |-> FALSE, loops |-> <<>>, ret |-> NilErr,
     servedInactive |-> FALSE]
Dropped == "dropped"    \* no handler was called
StatusOK == "200"       \* http.StatusOK
StatusBadRequest == "400"   \* http.StatusBadRequest

----------------------------------------------------------------------------
\* The Manager's fields as one value
M == [currentPhase |-> currentPhase, collectedUIDs |-> collectedUIDs,
      validAccounts |-> validAccounts, bondID |-> bondID]

NoNotify == [invoked |-> <<>>, blocked |-> FALSE, dispatched |-> {}, phase |-> -1]

\* GetCollectedUIDs takes m.mutex.RLock(): it cannot be acquired while a
\* writer (here: the calling goroutine itself, in HandleEvent) holds Lock.
RLockAcquirable(writeLocked) == ~writeLocked

\* Does the callback return when run with the Manager's lock in this state
CallbackReturns(cb, writeLocked) ==
    IF cb = AppValidatingCb THEN RLockAcquirable(writeLocked) ELSE TRUE

\* Index of the first callback of cbs that never returns, 0 if all return
RECURSIVE FirstBlocking(_, _, _)
FirstBlocking(cbs, i, writeLocked) ==
    IF i > Len(cbs) THEN 0
    ELSE IF ~CallbackReturns(cbs[i], writeLocked) THEN i
    ELSE FirstBlocking(cbs, i + 1, writeLocked)

\* notifySubscribers
notifySubscribersReversed(m, subs, writeLocked) ==
    LET cbs == subs[m.currentPhase]
        b == FirstBlocking(cbs, 1, writeLocked)
        inv == IF b = 0 THEN cbs ELSE SubSeq(cbs, 1, b)
    IN [invoked |-> [i \in 1..Len(inv) |->
                        <<inv[Len(inv) + 1 - i], m.currentPhase>>],
        blocked |-> b # 0,
        dispatched |-> IF \E i \in 1..Len(inv) :
                            inv[i] = AppValidatingCb /\ i # b
                       THEN {m.collectedUIDs} ELSE {},
        phase |-> m.currentPhase]

\* notifySubscribers: the callbacks registered for the current phase, in
\* registration order, synchronously; a callback that blocks stops the loop.
\* A returning appValidating callback dispatches `go validateUIDs(uids)`.
notifySubscribers(m, subs, writeLocked) ==
    LET cbs == subs[m.currentPhase]
        b == FirstBlocking(cbs, 1, writeLocked)
        inv == IF b = 0 THEN cbs ELSE SubSeq(cbs, 1, b)
    IN [invoked |-> [i \in 1..Len(inv) |-> <<inv[i], m.currentPhase>>],
        blocked |-> b # 0,
        dispatched |-> IF \E i \in 1..Len(inv) :
                            inv[i] = AppValidatingCb /\ i # b
                       THEN {m.collectedUIDs} ELSE {},
        phase |-> m.currentPhase]

Ret(m, err, n) == [m |-> m, err |-> err, n |-> n]

\* time.Now().UTC().Format(time.RFC3339): the clock truncated to seconds
FormatRFC3339(t) == t \div TicksPerSecond

\* generateBondID: the first 16 hex characters of SHA-256 of
\* "<timestamp>-<uids>".  The digest is modelled as collision free: the
\* identifier is the hashed text itself, a non-empty value, and differs
\* exactly when the formatted timestamp or the UID sequence differs.
generateBondID(uids, t) == <<FormatRFC3339(t), uids>>

\* handleNFCTap
handleNFCTapOffByOne(m, subs, uid) ==
    IF m.currentPhase # PhaseCollectingUIDs THEN Ret(m, ErrNotCollecting, NoNotify)
    ELSE IF \E i \in 1..Len(m.collectedUIDs) : m.collectedUIDs[i] = uid
         THEN Ret(m, ErrDuplicate, NoNotify)
    ELSE LET m1 == [m EXCEPT !.collectedUIDs = Append(@, uid)] IN
         IF Len(m1.collectedUIDs) = RequiredUIDs - 1
         THEN LET m2 == [m1 EXCEPT !.currentPhase = PhaseValidating]
              IN Ret(m2, NilErr, notifySubscribers(m2, subs, TRUE))
         ELSE Ret(m1, NilErr, NoNotify)

handleNFCTapNoDupCheck(m, subs, uid) ==
    IF m.currentPhase # PhaseCollectingUIDs THEN Ret(m, ErrNotCollecting, NoNotify)
    ELSE LET m1 == [m EXCEPT !.collectedUIDs = Append(@, uid)] IN
         IF Len(m1.collectedUIDs) = RequiredUIDs
         THEN LET m2 == [m1 EXCEPT !.currentPhase = PhaseValidating]
              IN Ret(m2, NilErr, notifySubscribers(m2, subs, TRUE))
         ELSE Ret(m1, NilErr, NoNotify)

handleNFCTap(m, subs, uid) ==
    IF m.currentPhase # PhaseCollectingUIDs THEN Ret(m, ErrNotCollecting, NoNotify)
    ELSE IF \E i \in 1..Len(m.collectedUIDs) : m.collectedUIDs[i] = uid
         THEN Ret(m, ErrDuplicate, NoNotify)
    ELSE LET m1 == [m EXCEPT !.collectedUIDs = Append(@, uid)] IN
         IF Len(m1.collectedUIDs) = RequiredUIDs
         THEN LET m2 == [m1 EXCEPT !.currentPhase = PhaseValidating]
              IN Ret(m2, NilErr, notifySubscribers(m2, subs, TRUE))
         ELSE Ret(m1, NilErr, NoNotify)

\* handleUIDValidated
handleUIDValidatedNoPhaseCheck(m, subs, accounts, t) ==
    LET m1 == [m EXCEPT !.validAccounts = accounts,
                        !.bondID = generateBondID(m.collectedUIDs, t),
                        !.currentPhase = PhaseRecordingMessage]
    IN Ret(m1, NilErr, notifySubscribers(m1, subs, TRUE))

handleUIDValidated(m, subs, accounts, t) ==
    IF m.currentPhase # PhaseValidating THEN Ret(m, ErrNotValidating, NoNotify)
    ELSE LET m1 == [m EXCEPT !.validAccounts = accounts,
                             !.bondID = generateBondID(m.collectedUIDs, t),
                             !.currentPhase = PhaseRecordingMessage]
         IN Ret(m1, NilErr, notifySubscribers(m1, subs, TRUE))

\* handleRecordingStarted
handleRecordingStarted(m) ==
    IF m.currentPhase # PhaseRecordingMessage THEN Ret(m, ErrNotRecording, NoNotify)
    ELSE Ret(m, NilErr, NoNotify)

\* handleRecordingComplete
handleRecordingComplete(m, subs) ==
    IF m.currentPhase # PhaseRecordingMessage THEN Ret(m, ErrNotRecording, NoNotify)
    ELSE LET m1 == [m EXCEPT !.currentPhase = PhaseComplete]
         IN Ret(m1, NilErr, notifySubscribers(m1, subs, TRUE))

\* handleError: every registered handler, in order, with the error; no
\* field of the Manager is assigned
handleErrorLeavesPhase(m, handlers, err) ==
    [m |-> [m EXCEPT !.currentPhase = PhaseCollectingUIDs], err |-> NilErr,
     n |-> NoNotify,
     errs |-> [i \in 1..Len(handlers) |-> <<handlers[i], err>>]]

handleErrorSkipsLast(m, handlers, err) ==
    [m |-> m, err |-> NilErr, n |-> NoNotify,
     errs |-> [i \in 1..(Len(handlers) - 1) |-> <<handlers[i], err>>]]

handleError(m, handlers, err) ==
    [m |-> m, err |-> NilErr, n |-> NoNotify,
     errs |-> [i \in 1..Len(handlers) |-> <<handlers[i], err>>]]

\* Manager.Start: sets the phase, whatever it was, and notifies
StartManager(m, subs) ==
    LET m1 == [m EXCEPT !.currentPhase = PhaseCollectingUIDs]
    IN Ret(m1, NilErr, notifySubscribers(m1, subs, TRUE))

\* Manager.Reset
ResetManagerKeepsBond(m, subs) ==
    LET m1 == [currentPhase |-> PhaseCollectingUIDs, collectedUIDs |-> <<>>,
               validAccounts |-> <<>>, bondID |-> m.bondID]
    IN Ret(m1, NilErr, notifySubscribers(m1, subs, TRUE))

ResetManager(m, subs) ==
    LET m1 == [currentPhase |-> PhaseCollectingUIDs, collectedUIDs |-> <<>>,
               validAccounts |-> <<>>, bondID |-> NoBondID]
    IN Ret(m1, NilErr, notifySubscribers(m1, subs, TRUE))

----------------------------------------------------------------------------
TotalSubscribers ==
    Len(subscribers[0]) + Len(subscribers[1]) + Len(subscribers[2])
        + Len(subscribers[3]) + Len(subscribers[4])

\* NewManager, NewApplication, power.NewManager
Init ==
    /\ currentPhase = PhaseInitial
    /\ collectedUIDs = <<>>
    /\ validAccounts = <<>>
    /\ bondID = NoBondID
    /\ subscribers = [p \in Phases |-> <<>>]
    /\ errorHandlers = <<>>
    /\ mutex = "unlocked"
    /\ lastRet = NilErr
    /\ fired = <<>>
    /\ errFired = <<>>
    /\ validatingNotified = 0
    /\ rearmed = FALSE
    /\ appPc = "new"
    /\ uidHandler = FALSE
    /\ validations = {}
    /\ outcome = "none"
    /\ tapWaiting = {}
    /\ tapLog = <<>>
    /\ now = 0
    /\ nextSweep = SweepPeriod
    /\ devices = NoDevices
    /\ lastMsg = NoDevices
    /\ listed = NoDevices
    /\ powerState = StateActive
    /\ lastActivity = 0
    /\ deepSleepTimer = NoTimer
    /\ orphanTimers = {}
    /\ onStateChange = FALSE
    /\ notified = <<>>
    /\ powerOp = [op |-> "NewManager", from |-> StateActive]
    /\ monitorTick = FALSE
    /\ ctxDone = FALSE
    /\ sweeperStopped = FALSE
    /\ monitorStopped = FALSE
    /\ shutdownReturned = FALSE
    /\ lateWork = [sweeper |-> 0, monitor |-> 0, elapsed |-> 0]
    /\ issued = <<>>
    /\ retry = NoCall
    /\ inFlight = {}
    /\ recorder = NewRecorder
    /\ reader = NewReader

\* The effect of a call that ran a handler under m.mutex.Lock(): the fields
\* it assigned, the callbacks it invoked, and the lock, which stays held
\* when a callback blocked (the deferred Unlock never runs).
Apply(op, r, ret) ==
    /\ currentPhase' = r.m.currentPhase
    /\ collectedUIDs' = r.m.collectedUIDs
    /\ validAccounts' = r.m.validAccounts
    /\ bondID' = r.m.bondID
    /\ fired' = r.n.invoked
    /\ mutex' = IF r.n.blocked THEN "held" ELSE "unlocked"
    /\ validations' = validations \cup r.n.dispatched
    /\ lastRet' = IF r.n.blocked THEN Blocked ELSE ret
    /\ validatingNotified' =
          IF op = "Reset" THEN 0
          ELSE IF r.n.phase = PhaseValidating THEN validatingNotified + 1
          ELSE validatingNotified
    /\ rearmed' = IF op = "Reset" THEN TRUE
                  ELSE IF r.m.currentPhase = PhaseRecordingMessage THEN FALSE
                  ELSE rearmed
    /\ outcome' = IF op = "Reset" THEN "none"
                  ELSE IF r.n.phase = PhaseValidating THEN "awaited"
                  ELSE IF op = "validateUIDs/valid" THEN "succeeded"
                  ELSE IF op = "validateUIDs/invalid" THEN "failed"
                  ELSE outcome

\* Manager.Start
Start ==
    /\ mutex = "unlocked"
    /\ Apply("Start", StartManager(M, subscribers),
             StartManager(M, subscribers).err)
    /\ errFired' = <<>>
    /\ UNCHANGED <<subscribers, errorHandlers, appPc, uidHandler>>
    /\ UNCHANGED <<tapVars, regVars>>
    /\ UNCHANGED <<powerVars, runVars, issued, compVars>>

\* HandleEvent(EventNFCTap, uid)
TapReceived(uid) ==
    /\ mutex = "unlocked"
    /\ Apply("NFCTap", handleNFCTap(M, subscribers, uid),
             handleNFCTap(M, subscribers, uid).err)
    /\ errFired' = <<>>
    /\ UNCHANGED <<subscribers, errorHandlers, appPc, uidHandler>>
    /\ UNCHANGED <<tapVars, regVars>>
    /\ UNCHANGED <<powerVars, runVars, issued, compVars>>

\* HandleEvent(EventUIDValidated, accounts)
UIDValidated(accounts, t) ==
    /\ mutex = "unlocked"
    /\ Apply("UIDValidated", handleUIDValidated(M, subscribers, accounts, t),
             handleUIDValidated(M, subscribers, accounts, t).err)
    /\ errFired' = <<>>
    /\ UNCHANGED <<subscribers, errorHandlers, appPc, uidHandler>>
    /\ UNCHANGED <<tapVars, regVars>>
    /\ UNCHANGED <<powerVars, runVars, issued, compVars>>

\* HandleEvent(EventRecordingStarted, nil)
RecordingStarted ==
    /\ mutex = "unlocked"
    /\ Apply("RecordingStarted", handleRecordingStarted(M),
             handleRecordingStarted(M).err)
    /\ errFired' = <<>>
    /\ UNCHANGED <<subscribers, errorHandlers, appPc, uidHandler>>
    /\ UNCHANGED <<tapVars, regVars>>
    /\ UNCHANGED <<powerVars, runVars, issued, compVars>>

\* HandleEvent(EventRecordingComplete, nil)
RecordingComplete ==
    /\ mutex = "unlocked"
    /\ Apply("RecordingComplete", handleRecordingComplete(M, subscribers),
             handleRecordingComplete(M, subscribers).err)
    /\ errFired' = <<>>
    /\ UNCHANGED <<subscribers, errorHandlers, appPc, uidHandler>>
    /\ UNCHANGED <<tapVars, regVars>>
    /\ UNCHANGED <<powerVars, runVars, issued, compVars>>

\* HandleEvent(EventError, err)
ErrorEvent(err) ==
    /\ mutex = "unlocked"
    /\ Apply("Error", handleError(M, errorHandlers, err),
             handleError(M, errorHandlers, err).err)
    /\ errFired' = handleError(M, errorHandlers, err).errs
    /\ UNCHANGED <<subscribers, errorHandlers, appPc, uidHandler>>
    /\ UNCHANGED <<tapVars, regVars>>
    /\ UNCHANGED <<powerVars, runVars, issued, compVars>>

\* Manager.Reset
Reset ==
    /\ mutex = "unlocked"
    /\ Apply("Reset", ResetManager(M, subscribers),
             ResetManager(M, subscribers).err)
    /\ errFired' = <<>>
    /\ UNCHANGED <<subscribers, errorHandlers, appPc, uidHandler>>
    /\ UNCHANGED <<tapVars, regVars>>
    /\ UNCHANGED <<powerVars, runVars, issued, compVars>>

\* Manager.Subscribe(phase, callback)
Subscribe(phase, cb) ==
    /\ mutex = "unlocked"
    /\ TotalSubscribers < MaxSubscribers
    /\ subscribers' = [subscribers EXCEPT ![phase] = Append(@, cb)]
    /\ lastRet' = NilErr
    /\ fired' = <<>>
    /\ errFired' = <<>>
    /\ UNCHANGED <<sessionVars, errorHandlers, mutex,
                   validatingNotified, rearmed, appVars>>
    /\ UNCHANGED <<outcome, tapVars, regVars>>
    /\ UNCHANGED <<powerVars, runVars, issued, compVars>>

\* Manager.SubscribeError(handler)
SubscribeError(h) ==
    /\ mutex = "unlocked"
    /\ Len(errorHandlers) < MaxErrorHandlers
    /\ errorHandlers' = Append(errorHandlers, h)
    /\ lastRet' = NilErr
    /\ fired' = <<>>
    /\ errFired' = <<>>
    /\ UNCHANGED <<sessionVars, subscribers, mutex,
                   validatingNotified, rearmed, appVars>>
    /\ UNCHANGED <<outcome, tapVars, regVars>>
    /\ UNCHANGED <<powerVars, runVars, issued, compVars>>

Next ==
    \/ Start
    \/ \E uid \in UIDs : TapReceived(uid)
    \/ \E accounts \in AccountLists, t \in Times : UIDValidated(accounts, t)
    \/ RecordingStarted
    \/ RecordingComplete
    \/ \E err \in Errors : ErrorEvent(err)
    \/ Reset
    \/ \E sub \in Subscriptions : Subscribe(sub[1], sub[2])

\* The Manager driven by clients that register phase callbacks
Spec == Init /\ [][Next]_vars

NextErr ==
    \/ Start
    \/ \E uid \in UIDs : TapReceived(uid)
    \/ \E accounts \in AccountLists, t \in Times : UIDValidated(accounts, t)
    \/ RecordingStarted
    \/ RecordingComplete
    \/ \E err \in Errors : ErrorEvent(err)
    \/ Reset
    \/ \E h \in ErrorHandlers : SubscribeError(h)

\* The Manager driven by clients that register error handlers
SpecErr == Init /\ [][NextErr]_vars

----------------------------------------------------------------------------
\* The wired application (cmd/fizhub).  appPc is the position of the main
\* goroutine in Application.Start / initializeComponents /
\* setupComponentInteractions; transport and HTTP handlers run concurrently.
AppPcs == <<"new", "stateStarted", "brokerStarted", "uidHandlerSet",
            "subValidating", "subRecording", "serving">>

PcIndex(pc) == CHOOSE i \in 1..Len(AppPcs) : AppPcs[i] = pc
PcAtLeast(pc) == PcIndex(appPc) >= PcIndex(pc)

\* initializeComponents: app.stateMgr.Start(ctx)
AppStartStateMgr ==
    /\ appPc = "new"
    /\ mutex = "unlocked"
    /\ Apply("Start", StartManager(M, subscribers),
             StartManager(M, subscribers).err)
    /\ errFired' = <<>>
    /\ appPc' = "stateStarted"
    /\ UNCHANGED <<subscribers, errorHandlers, uidHandler>>
    /\ UNCHANGED <<tapVars, regVars>>
    /\ UNCHANGED <<powerVars, runVars, issued, compVars>>

\* initializeComponents: app.mqttBroker.Start(ctx); the broker connects and
\* subscribes to fiz/uid, so messageHandler runs from here on
AppStartBroker ==
    /\ appPc = "stateStarted"
    /\ appPc' = "brokerStarted"
    /\ UNCHANGED <<sessionVars, subscribers, errorHandlers, mutex, lastRet,
                   fired, errFired, validatingNotified, rearmed, uidHandler,
                   validations>>
    /\ UNCHANGED <<outcome, tapVars, regVars>>
    /\ UNCHANGED <<powerVars, runVars, issued, compVars>>

\* setupComponentInteractions: app.mqttBroker.SetUIDHandler(...)
AppSetUIDHandler ==
    /\ appPc = "brokerStarted"
    /\ appPc' = "uidHandlerSet"
    /\ uidHandler' = TRUE
    /\ UNCHANGED <<sessionVars, subscribers, errorHandlers, mutex, lastRet,
                   fired, errFired, validatingNotified, rearmed, validations>>
    /\ UNCHANGED <<outcome, tapVars, regVars>>
    /\ UNCHANGED <<powerVars, runVars, issued, compVars>>

\* setupComponentInteractions: Subscribe(state.PhaseValidating, ...); the
\* main goroutine waits for m.mutex like any other caller
AppSubscribeValidating ==
    /\ appPc = "uidHandlerSet"
    /\ mutex = "unlocked"
    /\ appPc' = "subValidating"
    /\ subscribers' = [subscribers EXCEPT ![PhaseValidating] = Append(@, AppValidatingCb)]
    /\ lastRet' = NilErr
    /\ fired' = <<>>
    /\ errFired' = <<>>
    /\ UNCHANGED <<sessionVars, errorHandlers, mutex, validatingNotified,
                   rearmed, uidHandler, validations>>
    /\ UNCHANGED <<outcome, tapVars, regVars>>
    /\ UNCHANGED <<powerVars, runVars, issued, compVars>>

\* setupComponentInteractions: Subscribe(state.PhaseRecordingMessage, ...)
AppSubscribeRecording ==
    /\ appPc = "subValidating"
    /\ mutex = "unlocked"
    /\ appPc' = "subRecording"
    /\ subscribers' = [subscribers EXCEPT ![PhaseRecordingMessage] = Append(@, AppRecordingCb)]
    /\ lastRet' = NilErr
    /\ fired' = <<>>
    /\ errFired' = <<>>
    /\ UNCHANGED <<sessionVars, errorHandlers, mutex, validatingNotified,
                   rearmed, uidHandler, validations>>
    /\ UNCHANGED <<outcome, tapVars, regVars>>
    /\ UNCHANGED <<powerVars, runVars, issued, compVars>>

\* Application.Start: the HTTP server goroutine is started
AppServeHTTP ==
    /\ appPc = "subRecording"
    /\ appPc' = "serving"
    /\ UNCHANGED <<sessionVars, subscribers, errorHandlers, mutex, lastRet,
                   fired, errFired, validatingNotified, rearmed, uidHandler,
                   validations>>
    /\ UNCHANGED <<outcome, tapVars, regVars>>
    /\ UNCHANGED <<powerVars, runVars, issued, compVars>>

\* messageHandler, case "fiz/uid": the message is forwarded to uidHandler
\* when one is set and dropped otherwise; the handler's closure calls
\* HandleEvent(EventNFCTap, msg.UID) and ignores its result
MQTTUidMessage(uid) ==
    /\ PcAtLeast("brokerStarted")
    /\ IF uidHandler
       THEN /\ mutex = "unlocked"
            /\ Apply("fiz/uid", handleNFCTap(M, subscribers, uid),
             handleNFCTap(M, subscribers, uid).err)
            /\ errFired' = <<>>
       ELSE /\ lastRet' = Dropped
            /\ fired' = <<>>
            /\ errFired' = <<>>
            /\ UNCHANGED <<sessionVars, mutex, validatingNotified, rearmed,
                           validations, outcome>>
    /\ UNCHANGED <<subscribers, errorHandlers, appPc, uidHandler>>
    /\ UNCHANGED <<tapVars, regVars>>
    /\ UNCHANGED <<powerVars, runVars, issued, compVars>>

\* handleReceiveUID: POST /api/receive_uid
HTTPReceiveUID(uid) ==
    /\ appPc = "serving"
    /\ mutex = "unlocked"
    /\ Apply("receive_uid", handleNFCTap(M, subscribers, uid),
             IF handleNFCTap(M, subscribers, uid).err = NilErr
             THEN StatusOK ELSE StatusBadRequest)
    /\ errFired' = <<>>
    /\ UNCHANGED <<subscribers, errorHandlers, appPc, uidHandler>>
    /\ UNCHANGED <<tapVars, regVars>>
    /\ UNCHANGED <<powerVars, runVars, issued, compVars>>

\* handleStatus: GET /api/status reads GetPhase, GetCollectedUIDs and
\* GetBondID, each under m.mutex.RLock()
HTTPStatus ==
    /\ appPc = "serving"
    /\ mutex = "unlocked"
    /\ lastRet' = StatusOK
    /\ fired' = <<>>
    /\ errFired' = <<>>
    /\ UNCHANGED <<sessionVars, subscribers, errorHandlers, mutex,
                   validatingNotified, rearmed, appVars>>
    /\ UNCHANGED <<outcome, tapVars, regVars>>
    /\ UNCHANGED <<powerVars, runVars, issued, compVars>>

NextApp ==
    \/ AppStartStateMgr
    \/ AppStartBroker
    \/ AppSetUIDHandler
    \/ AppSubscribeValidating
    \/ AppSubscribeRecording
    \/ AppServeHTTP
    \/ \E uid \in UIDs : MQTTUidMessage(uid)
    \/ \E uid \in UIDs : HTTPReceiveUID(uid)
    \/ HTTPStatus

SpecApp == Init /\ [][NextApp]_vars

----------------------------------------------------------------------------
\* The session with its validation task.  Application.validateUIDs calls
\* the Cursive server and delivers what it got: EventError with the
\* transport error, EventUIDValidated with the accounts of a valid response,
\* or EventError with the reason of an invalid one.  One outcome is
\* delivered per entry into Validating (outcome = "awaited").
ValidationResults == {"error", "valid", "invalid"}

validateUIDs(result, accounts, t) ==
    /\ outcome = "awaited"
    /\ mutex = "unlocked"
    /\ IF result = "valid"
       THEN /\ Apply("validateUIDs/valid",
                     handleUIDValidated(M, subscribers, accounts, t),
                     handleUIDValidated(M, subscribers, accounts, t).err)
            /\ errFired' = <<>>
       ELSE LET err == IF result = "error" THEN "network error"
                       ELSE "validation failed" IN
            /\ Apply("validateUIDs/invalid",
                     handleError(M, errorHandlers, err),
                     handleError(M, errorHandlers, err).err)
            /\ errFired' = handleError(M, errorHandlers, err).errs
    /\ UNCHANGED <<subscribers, errorHandlers, appPc, uidHandler>>
    /\ UNCHANGED <<tapVars, regVars>>
    /\ UNCHANGED <<powerVars, runVars, issued, compVars>>

\* Reset is not called by the application; an external caller can reach it
\* only once initializeComponents has started the Manager (part_003:215)
ExternalReset ==
    /\ PcAtLeast("stateStarted")
    /\ Reset

NextValidation ==
    \/ AppStartStateMgr
    \/ \E uid \in UIDs : TapReceived(uid)
    \/ \E result \in ValidationResults, accounts \in AccountLists, t \in Times :
            validateUIDs(result, accounts, t)
    \/ RecordingStarted
    \/ RecordingComplete
    \/ ExternalReset

SpecValidation == Init /\ [][NextValidation]_vars

----------------------------------------------------------------------------
\* Concurrent taps.  Each HandleEvent(EventNFCTap, uid) call runs in its own
\* goroutine (an MQTT callback, an HTTP handler): it waits at
\* m.mutex.Lock(), then runs handleNFCTap and the deferred Unlock with the
\* lock held throughout, so the handler is one step.  The calls carry
\* pairwise-distinct uids.
LoggedUIDs == {tapLog[i].uid : i \in 1..Len(tapLog)}

\* a goroutine calls HandleEvent and reaches m.mutex.Lock()
TapCall(uid) ==
    /\ PcAtLeast("stateStarted")
    /\ uid \notin tapWaiting
    /\ uid \notin LoggedUIDs
    /\ tapWaiting' = tapWaiting \cup {uid}
    /\ UNCHANGED <<sessionVars, subscribers, errorHandlers, mutex, lastRet,
                   fired, errFired, validatingNotified, rearmed, appVars,
                   outcome, tapLog, regVars>>
    /\ UNCHANGED <<powerVars, runVars, issued, compVars>>

\* the goroutine acquires the lock and runs the handler
TapServe(uid) ==
    /\ uid \in tapWaiting
    /\ mutex = "unlocked"
    /\ Apply("NFCTap", handleNFCTap(M, subscribers, uid),
             handleNFCTap(M, subscribers, uid).err)
    /\ errFired' = <<>>
    /\ tapWaiting' = tapWaiting \ {uid}
    /\ tapLog' = Append(tapLog, [uid |-> uid, ret |-> lastRet'])
    /\ UNCHANGED <<subscribers, errorHandlers, appPc, uidHandler, regVars>>
    /\ UNCHANGED <<powerVars, runVars, issued, compVars>>

NextTaps ==
    \/ AppStartStateMgr
    \/ \E sub \in Subscriptions : Subscribe(sub[1], sub[2])
    \/ \E uid \in UIDs : TapCall(uid)
    \/ \E uid \in UIDs : TapServe(uid)

SpecTaps == Init /\ [][NextTaps]_vars

----------------------------------------------------------------------------
\* The device registry (MQTTBroker).  devices is the Go map: a function
\* whose domain is the set of keys.  messageHandler and monitorDevices run
\* once MQTTBroker.Start has connected, subscribed and started the sweeper.

\* registerDevice: the decoded payload, stamped, stored under its DeviceID
\* (the payload carries no rssi: the field keeps its zero value)
registerDeviceKeepsFirst(devs, id, reg, t) ==
    [d \in DOMAIN devs \cup {id} |->
        IF d \in DOMAIN devs THEN devs[d]
        ELSE [type |-> reg.type, firmware |-> reg.firmware, ip |-> reg.ip,
              lastSeen |-> t, status |-> "online", rssi |-> 0]]

registerDevice(devs, id, reg, t) ==
    [d \in DOMAIN devs \cup {id} |->
        IF d = id
        THEN [type |-> reg.type, firmware |-> reg.firmware, ip |-> reg.ip,
              lastSeen |-> t, status |-> "online", rssi |-> 0]
        ELSE devs[d]]

\* updateDeviceStatus
updateDeviceStatusCreates(devs, id, status, rssi, t) ==
    [d \in DOMAIN devs \cup {id} |->
        IF d # id THEN devs[d]
        ELSE IF d \in DOMAIN devs
        THEN [devs[d] EXCEPT !.status = status, !.rssi = rssi, !.lastSeen = t]
        ELSE [type |-> "", firmware |-> "", ip |-> "",
              lastSeen |-> t, status |-> status, rssi |-> rssi]]

updateDeviceStatus(devs, id, status, rssi, t) ==
    IF id \in DOMAIN devs
    THEN [devs EXCEPT ![id] =
            [@ EXCEPT !.status = status, !.rssi = rssi, !.lastSeen = t]]
    ELSE devs

\* checkInactiveDevices
checkInactiveDevicesAtTimeout(devs, t) ==
    [d \in DOMAIN devs |->
        IF devs[d].status = "online" /\ t - devs[d].lastSeen >= LivenessTimeout
        THEN [devs[d] EXCEPT !.status = "offline"]
        ELSE devs[d]]

\* checkInactiveDevices deleting the devices it finds inactive
checkInactiveDevicesRemoves(devs, t) ==
    [d \in {e \in DOMAIN devs :
                ~(devs[e].status = "online"
                    /\ t - devs[e].lastSeen > LivenessTimeout)} |-> devs[d]]

checkInactiveDevices(devs, t) ==
    [d \in DOMAIN devs |->
        IF devs[d].status = "online" /\ t - devs[d].lastSeen > LivenessTimeout
        THEN [devs[d] EXCEPT !.status = "offline"]
        ELSE devs[d]]

\* the message just handled, remembered for the devices the map knows:
\* its topic, its status field, and whether the map knew the device
Heard(devs, id, topic, status) ==
    [d \in DOMAIN devs |->
        IF d = id
        THEN [topic |-> topic, status |-> status,
              known |-> id \in DOMAIN devices]
        ELSE lastMsg[d]]

\* messageHandler, case "fiz/register".  The map entry now points to the
\* new record: a slice returned earlier by GetDevices keeps the old one.
RegisterMsg(id, reg) ==
    /\ PcAtLeast("brokerStarted")
    /\ devices' = registerDevice(devices, id, reg, now)
    /\ lastMsg' = Heard(devices', id, TopicRegister, "")
    /\ listed' = [d \in DOMAIN listed |->
                    IF d = id THEN "detached" ELSE listed[d]]
    /\ UNCHANGED <<now, nextSweep>>
    /\ UNCHANGED <<sessionVars, subscribers, errorHandlers, mutex, lastRet,
                   fired, errFired, validatingNotified, rearmed, appVars,
                   outcome, tapVars>>
    /\ UNCHANGED <<powerVars, runVars, issued, compVars>>

\* messageHandler, case "fiz/status"
StatusMsg(id, status, rssi) ==
    /\ PcAtLeast("brokerStarted")
    /\ devices' = updateDeviceStatus(devices, id, status, rssi, now)
    /\ lastMsg' = Heard(devices', id, TopicStatus, status)
    /\ UNCHANGED <<now, nextSweep, listed>>
    /\ UNCHANGED <<sessionVars, subscribers, errorHandlers, mutex, lastRet,
                   fired, errFired, validatingNotified, rearmed, appVars,
                   outcome, tapVars>>
    /\ UNCHANGED <<powerVars, runVars, issued, compVars>>

\* messageHandler, case "fiz/uid", letting through only the taps of devices
\* the registry holds as online
UIDMsgOnlineOnly(id, uid) ==
    /\ PcAtLeast("brokerStarted")
    /\ lastMsg' = Heard(devices, id, TopicUID, "")
    /\ IF uidHandler
       THEN LET r == IF id \in DOMAIN devices /\ devices[id].status = "online"
                     THEN handleNFCTap(M, subscribers, uid)
                     ELSE Ret(M, Dropped, NoNotify) IN
            /\ mutex = "unlocked"
            /\ Len(tapLog) < MaxTaps
            /\ Apply("fiz/uid", r, r.err)
            /\ errFired' = <<>>
            /\ tapLog' = Append(tapLog, [uid |-> uid, ret |-> lastRet'])
       ELSE UNCHANGED <<sessionVars, mutex, lastRet, fired, errFired,
                        validatingNotified, rearmed, validations, outcome,
                        tapLog>>
    /\ UNCHANGED <<subscribers, errorHandlers, appPc, uidHandler, tapWaiting,
                   now, nextSweep, devices, listed>>
    /\ UNCHANGED <<powerVars, runVars, issued, compVars>>

\* messageHandler, case "fiz/uid": the registry is not touched; the message
\* goes to uidHandler when one is set, whose closure calls
\* HandleEvent(EventNFCTap, msg.UID) and ignores the result
UIDMsg(id, uid) ==
    /\ PcAtLeast("brokerStarted")
    /\ lastMsg' = Heard(devices, id, TopicUID, "")
    /\ IF uidHandler
       THEN /\ mutex = "unlocked"
            /\ Len(tapLog) < MaxTaps
            /\ Apply("fiz/uid", handleNFCTap(M, subscribers, uid),
                     handleNFCTap(M, subscribers, uid).err)
            /\ errFired' = <<>>
            /\ tapLog' = Append(tapLog, [uid |-> uid, ret |-> lastRet'])
       ELSE UNCHANGED <<sessionVars, mutex, lastRet, fired, errFired,
                        validatingNotified, rearmed, validations, outcome,
                        tapLog>>
    /\ UNCHANGED <<subscribers, errorHandlers, appPc, uidHandler, tapWaiting,
                   now, nextSweep, devices, listed>>
    /\ UNCHANGED <<powerVars, runVars, issued, compVars>>

\* GetDevices: a new slice holding the map's pointers
GetDevices ==
    /\ listed' = [d \in DOMAIN devices |-> "live"]
    /\ UNCHANGED <<now, nextSweep, devices, lastMsg>>
    /\ UNCHANGED <<sessionVars, subscribers, errorHandlers, mutex, lastRet,
                   fired, errFired, validatingNotified, rearmed, appVars,
                   outcome, tapVars>>
    /\ UNCHANGED <<powerVars, runVars, issued, compVars>>

\* The cases a `select` on ctx.Done() and ticker.C can take, with the
\* Done case left out
selectCasesIgnoreDone(done, tick) ==
    IF tick THEN {"tick"} ELSE {}

\* The cases a `select` on ctx.Done() and ticker.C can take: any one that
\* is ready
selectCases(done, tick) ==
    (IF done THEN {"done"} ELSE {}) \cup (IF tick THEN {"tick"} ELSE {})

\* monitorDevices: the ticker fires and checkInactiveDevices runs
Sweep ==
    /\ PcAtLeast("brokerStarted")
    /\ ~sweeperStopped
    /\ "tick" \in selectCases(ctxDone, now = nextSweep)
    /\ devices' = checkInactiveDevices(devices, now)
    /\ nextSweep' = nextSweep + SweepPeriod
    /\ lateWork' = IF ctxDone THEN [lateWork EXCEPT !.sweeper = @ + 1]
                    ELSE lateWork
    /\ UNCHANGED <<now, lastMsg, listed>>
    /\ UNCHANGED <<sessionVars, subscribers, errorHandlers, mutex, lastRet,
                   fired, errFired, validatingNotified, rearmed, appVars,
                   outcome, tapVars>>
    /\ UNCHANGED <<powerVars, ctxDone, sweeperStopped, monitorStopped,
                   shutdownReturned, issued, compVars>>

\* time passes; the ticker fires before the clock moves past its instant
Tick ==
    /\ PcAtLeast("brokerStarted")
    /\ now < MaxNow
    /\ now < nextSweep
    /\ now' = now + 1
    /\ UNCHANGED <<nextSweep, devices, lastMsg, listed>>
    /\ UNCHANGED <<sessionVars, subscribers, errorHandlers, mutex, lastRet,
                   fired, errFired, validatingNotified, rearmed, appVars,
                   outcome, tapVars>>
    /\ UNCHANGED <<powerVars, runVars, issued, compVars>>

NextRegistry ==
    \/ AppStartStateMgr
    \/ AppStartBroker
    \/ \E id \in DeviceIDs, reg \in Registrations : RegisterMsg(id, reg)
    \/ \E id \in DeviceIDs, status \in Statuses, rssi \in RSSIs :
            StatusMsg(id, status, rssi)
    \/ \E id \in DeviceIDs, uid \in UIDs : UIDMsg(id, uid)
    \/ Sweep
    \/ Tick

SpecRegistry == Init /\ [][NextRegistry]_vars

\* The registry with a client reading it: handleDevices calls GetDevices
\* and encodes the returned slice after the lock is released
NextList ==
    \/ AppStartStateMgr
    \/ AppStartBroker
    \/ \E id \in DeviceIDs, reg \in Registrations : RegisterMsg(id, reg)
    \/ \E id \in DeviceIDs, status \in Statuses, rssi \in RSSIs :
            StatusMsg(id, status, rssi)
    \/ GetDevices
    \/ Sweep
    \/ Tick

SpecList == Init /\ [][NextList]_vars

\* Registry and session together: the broker forwards fiz/uid messages to
\* the handler set by setupComponentInteractions.  One reader registers and
\* reports its status; the other one never registers; both send taps.
RegisteringReaders == {"readerA"}

NextHub ==
    \/ AppStartStateMgr
    \/ AppStartBroker
    \/ AppSetUIDHandler
    \/ \E id \in RegisteringReaders, reg \in Registrations : RegisterMsg(id, reg)
    \/ \E id \in RegisteringReaders, status \in Statuses, rssi \in RSSIs :
            StatusMsg(id, status, rssi)
    \/ \E id \in DeviceIDs, uid \in UIDs : UIDMsg(id, uid)

SpecHub == Init /\ [][NextHub]_vars

\* The registry fed by clients that report any status string: the status
\* member of a fiz/status payload is a free string
ReportedStatuses == Statuses \cup {"rebooting"}

NextStatus ==
    \/ AppStartStateMgr
    \/ AppStartBroker
    \/ \E id \in RegisteringReaders, reg \in Registrations : RegisterMsg(id, reg)
    \/ \E id \in RegisteringReaders, status \in ReportedStatuses,
          rssi \in RSSIs : StatusMsg(id, status, rssi)
    \/ Sweep
    \/ Tick

SpecStatus == Init /\ [][NextStatus]_vars

----------------------------------------------------------------------------
\* Several phase callbacks at once: two observers of PhaseValidating, whose
\* registration order is free, and a third observer of another phase.
NotifyObservers == {"obsA", "obsB", "obsC"}
NotifySubscriptions ==
    {<<PhaseValidating, "obsA">>, <<PhaseValidating, "obsB">>,
     <<PhaseRecordingMessage, "obsC">>, <<PhaseCollectingUIDs, "obsC">>}

\* Manager.Subscribe(phase, callback) by an observer that registers once
SubscribeObserver(phase, cb) ==
    /\ mutex = "unlocked"
    /\ \A p \in Phases : \A i \in 1..Len(subscribers[p]) :
            subscribers[p][i] # cb
    /\ subscribers' = [subscribers EXCEPT ![phase] = Append(@, cb)]
    /\ lastRet' = NilErr
    /\ fired' = <<>>
    /\ errFired' = <<>>
    /\ UNCHANGED <<sessionVars, errorHandlers, mutex,
                   validatingNotified, rearmed, appVars>>
    /\ UNCHANGED <<outcome, tapVars, regVars>>
    /\ UNCHANGED <<powerVars, runVars, issued, compVars>>

NextNotify ==
    \/ Start
    \/ \E uid \in UIDs : TapReceived(uid)
    \/ \E accounts \in AccountLists, t \in Times : UIDValidated(accounts, t)
    \/ RecordingStarted
    \/ RecordingComplete
    \/ \E err \in Errors : ErrorEvent(err)
    \/ Reset
    \/ \E sub \in NotifySubscriptions : SubscribeObserver(sub[1], sub[2])

\* The Manager driven by clients that register several returning callbacks
SpecNotify == Init /\ [][NextNotify]_vars

\* Register payloads as they arrive: bytes that are or are not a JSON object
\* json.Unmarshal accepts for a ReaderDevice, holding a device_id member or
\* not
NoFields == [k \in {} |-> ""]
RegisterPayloads ==
    {[json |-> j, fields |-> f] :
        j \in BOOLEAN, f \in {NoFields} \cup {[k \in {"device_id"} |-> id] :
                                                id \in RegisteringReaders}}

\* json.Unmarshal(msg.Payload(), &device): an error for bytes it cannot
\* decode; a member the object lacks leaves the field at its zero value
Unmarshal(payload) ==
    IF ~payload.json
    THEN [err |-> TRUE, DeviceID |-> ""]
    ELSE [err |-> FALSE,
          DeviceID |-> IF "device_id" \in DOMAIN payload.fields
                       THEN payload.fields["device_id"] ELSE ""]

\* messageHandler, case "fiz/register", from the payload's bytes: a decoding
\* error is logged and the message dropped, anything else is registered
RegisterPayload(payload, reg) ==
    /\ PcAtLeast("brokerStarted")
    /\ IF Unmarshal(payload).err
       THEN UNCHANGED vars
       ELSE RegisterMsg(Unmarshal(payload).DeviceID, reg)

NextDecode ==
    \/ AppStartStateMgr
    \/ AppStartBroker
    \/ \E payload \in RegisterPayloads, reg \in Registrations :
            RegisterPayload(payload, reg)
    \/ \E id \in RegisteringReaders, status \in Statuses, rssi \in RSSIs :
            StatusMsg(id, status, rssi)
    \/ Sweep
    \/ Tick

SpecDecode == Init /\ [][NextDecode]_vars

\* generateBondID on its own: the sessions it is called for are given by
\* the UIDs they collected and the time their validation completed
CollectedTriples ==
    {uids \in [1..RequiredUIDs -> UIDs] :
        \A i, j \in 1..RequiredUIDs : uids[i] = uids[j] => i = j}

\* handleUIDValidated calls generateBondID(m.collectedUIDs) at time t
IssueBondID(uids, t) ==
    /\ Len(issued) < MaxIssued
    /\ issued' = Append(issued, [uids |-> uids, at |-> t,
                                 id |-> generateBondID(uids, t)])
    /\ UNCHANGED <<OtherVars, regVars, powerVars, runVars, compVars>>

NextBond ==
    \E uids \in CollectedTriples, t \in Times : IssueBondID(uids, t)

SpecBond == Init /\ [][NextBond]_vars

----------------------------------------------------------------------------
\* The power manager (internal/power/manager.go).  Its operations are
\* operators over the record P of its fields; each returns the new fields
\* and the onStateChange calls it made.

P == [state |-> powerState, lastActivity |-> lastActivity,
      timer |-> deepSleepTimer, orphans |-> orphanTimers]

PRet(p, calls) == [p |-> p, calls |-> calls]

\* Manager.setState: cb tells whether onStateChange is set
setState(p, state, cb) ==
    PRet([p EXCEPT !.state = state], IF cb THEN <<state>> ELSE <<>>)

\* Manager.RecordActivity calling setState whatever the state is
RecordActivityAlwaysNotifies(p, t, cb) ==
    LET r == setState([p EXCEPT !.lastActivity = t], StateActive, cb) IN
    PRet(IF r.p.timer.exists
         THEN [r.p EXCEPT !.timer = Timer(t + IdleTimeout)]
         ELSE r.p,
         r.calls)

\* Manager.RecordActivity leaving a sleeping manager asleep
RecordActivityKeepsSleeping(p, t, cb) ==
    LET q == [p EXCEPT !.lastActivity = t]
        r == IF q.state = StateIdle
             THEN setState(q, StateActive, cb)
             ELSE PRet(q, <<>>) IN
    PRet(IF r.p.timer.exists
         THEN [r.p EXCEPT !.timer = Timer(t + IdleTimeout)]
         ELSE r.p,
         r.calls)

\* Manager.RecordActivity.  Timer.Reset arms the timer again even when it
\* has fired or was stopped.
RecordActivity(p, t, cb) ==
    LET q == [p EXCEPT !.lastActivity = t]
        r == IF q.state # StateActive
             THEN setState(q, StateActive, cb)
             ELSE PRet(q, <<>>) IN
    PRet(IF r.p.timer.exists
         THEN [r.p EXCEPT !.timer = Timer(t + IdleTimeout)]
         ELSE r.p,
         r.calls)

\* Manager.checkIdleState.  time.AfterFunc makes a new timer; the timer
\* deepSleepTimer pointed to is not stopped and fires too if it was armed.
checkIdleState(p, t, cb) ==
    IF t - p.lastActivity >= IdleTimeout /\ p.state = StateActive
    THEN LET r == setState(p, StateIdle, cb) IN
         PRet([r.p EXCEPT !.timer = Timer(t + IdleTimeout),
                          !.orphans = IF p.timer.armed
                                      THEN @ \cup {p.timer.at} ELSE @],
              r.calls)
    ELSE PRet(p, <<>>)

\* Manager.enterDeepSleep
enterDeepSleep(p, cb) == setState(p, StateDeepSleep, cb)

\* Manager.WakeUp doing nothing from any state
WakeUpNever(p, t, cb) ==
    PRet(p, <<>>)

\* Manager.WakeUp
WakeUp(p, t, cb) ==
    IF p.state # StateDeepSleep
    THEN PRet(p, <<>>)
    ELSE LET r == setState(p, StateActive, cb) IN
         PRet([r.p EXCEPT !.lastActivity = t], r.calls)

\* Manager.Stop
StopPower(p) ==
    IF p.timer.exists THEN [p EXCEPT !.timer.armed = FALSE] ELSE p

ApplyPower(op, r) ==
    /\ powerOp' = [op |-> op, from |-> powerState]
    /\ powerState' = r.p.state
    /\ lastActivity' = r.p.lastActivity
    /\ deepSleepTimer' = r.p.timer
    /\ orphanTimers' = r.p.orphans
    /\ notified' = r.calls

\* powerMgr.SetOnStateChange (setupComponentInteractions)
PowerSetOnStateChange ==
    /\ ~onStateChange
    /\ onStateChange' = TRUE
    /\ notified' = <<>>
    /\ UNCHANGED <<powerState, lastActivity, deepSleepTimer, orphanTimers,
                   powerOp, monitorTick>>
    /\ UNCHANGED <<OtherVars, regVars, runVars, issued, compVars>>

\* a call of RecordActivity
PowerRecordActivity ==
    /\ ApplyPower("RecordActivity", RecordActivity(P, now, onStateChange))
    /\ UNCHANGED <<onStateChange, monitorTick>>
    /\ UNCHANGED <<OtherVars, regVars, runVars, issued, compVars>>

\* a call of WakeUp
PowerWakeUp ==
    /\ ApplyPower("WakeUp", WakeUp(P, now, onStateChange))
    /\ UNCHANGED <<onStateChange, monitorTick>>
    /\ UNCHANGED <<OtherVars, regVars, runVars, issued, compVars>>

\* monitorPowerState takes a tick from its ticker and runs checkIdleState;
\* powerMgr.Start is called before stateMgr.Start
PowerCheckIdle ==
    /\ PcAtLeast("stateStarted")
    /\ ~monitorStopped
    /\ "tick" \in selectCases(ctxDone, monitorTick)
    /\ ApplyPower("checkIdleState", checkIdleState(P, now, onStateChange))
    /\ monitorTick' = FALSE
    /\ lateWork' = IF ctxDone THEN [lateWork EXCEPT !.monitor = @ + 1]
                    ELSE lateWork
    /\ UNCHANGED <<onStateChange, ctxDone, sweeperStopped, monitorStopped,
                   shutdownReturned>>
    /\ UNCHANGED <<OtherVars, regVars, issued, compVars>>

\* the timer deepSleepTimer points to fires: enterDeepSleep runs
PowerTimerFires ==
    /\ deepSleepTimer.armed
    /\ now >= deepSleepTimer.at
    /\ ApplyPower("enterDeepSleep",
                  enterDeepSleep([P EXCEPT !.timer.armed = FALSE],
                                 onStateChange))
    /\ UNCHANGED <<onStateChange, monitorTick>>
    /\ UNCHANGED <<OtherVars, regVars, runVars, issued, compVars>>

\* a timer made by an earlier checkIdleState fires: enterDeepSleep runs
PowerOrphanFires ==
    \E d \in orphanTimers :
        /\ now >= d
        /\ ApplyPower("enterDeepSleep",
                      enterDeepSleep([P EXCEPT !.orphans = @ \ {d}],
                                     onStateChange))
        /\ UNCHANGED <<onStateChange, monitorTick>>
        /\ UNCHANGED <<OtherVars, regVars, runVars, issued, compVars>>

\* No goroutine of a periodic task or timer is ready to run: the tickers'
\* ticks are taken, ctx.Done() has been seen, the due timers have fired
Settled ==
    /\ sweeperStopped \/ selectCases(ctxDone, now = nextSweep) = {}
    /\ monitorStopped \/ selectCases(ctxDone, monitorTick) = {}
    /\ ~(deepSleepTimer.armed /\ now >= deepSleepTimer.at)
    /\ \A d \in orphanTimers : now < d

\* time passes in the started application: a goroutine that is ready runs
\* before the clock moves by a tick, and the power ticker (one second) has
\* a tick waiting afterwards
Elapse ==
    /\ PcAtLeast("brokerStarted")
    /\ now < MaxNow
    /\ Settled
    /\ now' = now + 1
    /\ monitorTick' = TRUE
    /\ lateWork' = IF ctxDone THEN [lateWork EXCEPT !.elapsed = @ + 1]
                    ELSE lateWork
    /\ UNCHANGED <<nextSweep, devices, lastMsg, listed>>
    /\ UNCHANGED <<powerState, lastActivity, deepSleepTimer, orphanTimers,
                   onStateChange, notified, powerOp>>
    /\ UNCHANGED <<ctxDone, sweeperStopped, monitorStopped,
                   shutdownReturned>>
    /\ UNCHANGED <<OtherVars, issued, compVars>>

\* The power manager driven by arbitrary clients of its API
NextPower ==
    \/ AppStartStateMgr
    \/ AppStartBroker
    \/ PowerSetOnStateChange
    \/ PowerRecordActivity
    \/ PowerWakeUp
    \/ PowerCheckIdle
    \/ PowerTimerFires
    \/ PowerOrphanFires
    \/ Sweep
    \/ Elapse

SpecPower == Init /\ [][NextPower]_vars

\* The wired application with its tap source, the power manager's monitor
\* and the registry's sweeper, as time passes
NextWiring ==
    \/ AppStartStateMgr
    \/ AppStartBroker
    \/ AppSetUIDHandler
    \/ AppSubscribeValidating
    \/ AppSubscribeRecording
    \/ AppServeHTTP
    \/ \E uid \in UIDs : MQTTUidMessage(uid)
    \/ PowerCheckIdle
    \/ PowerTimerFires
    \/ Sweep
    \/ Elapse

SpecWiring == Init /\ [][NextWiring]_vars

----------------------------------------------------------------------------
\* Shutdown and cancellation.  Application.Start hands its context to every
\* component and then waits for the context or a signal before it calls
\* Shutdown.

\* the caller of Application.Start cancels the context
CancelCtx ==
    /\ PcAtLeast("brokerStarted")
    /\ ~ctxDone
    /\ ctxDone' = TRUE
    /\ UNCHANGED <<sweeperStopped, monitorStopped, shutdownReturned,
                   lateWork>>
    /\ UNCHANGED <<OtherVars, regVars, powerVars, issued, compVars>>

\* monitorDevices takes the Done case of its select and returns
SweeperStop ==
    /\ PcAtLeast("brokerStarted")
    /\ ~sweeperStopped
    /\ "done" \in selectCases(ctxDone, now = nextSweep)
    /\ sweeperStopped' = TRUE
    /\ UNCHANGED <<ctxDone, monitorStopped, shutdownReturned, lateWork>>
    /\ UNCHANGED <<OtherVars, regVars, powerVars, issued, compVars>>

\* monitorPowerState takes the Done case of its select and returns
MonitorStop ==
    /\ PcAtLeast("stateStarted")
    /\ ~monitorStopped
    /\ "done" \in selectCases(ctxDone, monitorTick)
    /\ monitorStopped' = TRUE
    /\ UNCHANGED <<ctxDone, sweeperStopped, shutdownReturned, lateWork>>
    /\ UNCHANGED <<OtherVars, regVars, powerVars, issued, compVars>>

\* Application.Shutdown, called by Start on a signal or a done context, with
\* no HTTP request in flight: the server closes, the reader and the LED
\* controller stop, powerMgr.Stop stops deepSleepTimer, the recorder stops
\* recording and the MQTT client disconnects.  It waits for no goroutine
\* and cancels no context.
Shutdown ==
    /\ PcAtLeast("brokerStarted")
    /\ ~shutdownReturned
    /\ shutdownReturned' = TRUE
    /\ ApplyPower("Stop", PRet(StopPower(P), <<>>))
    /\ UNCHANGED <<onStateChange, monitorTick>>
    /\ UNCHANGED <<ctxDone, sweeperStopped, monitorStopped, lateWork>>
    /\ UNCHANGED <<OtherVars, regVars, issued, compVars>>

\* a tap from one of the application's sources (MQTT, HTTP, the reader),
\* all of which Shutdown closes
AppTap(uid) ==
    /\ PcAtLeast("stateStarted")
    /\ ~shutdownReturned
    /\ TapReceived(uid)

\* The periodic tasks and timers under cancellation and shutdown
NextShutdown ==
    \/ AppStartStateMgr
    \/ AppStartBroker
    \/ CancelCtx
    \/ Shutdown
    \/ SweeperStop
    \/ MonitorStop
    \/ Sweep
    \/ PowerCheckIdle
    \/ PowerTimerFires
    \/ Elapse

SpecShutdown == Init /\ [][NextShutdown]_vars

\* The session with its validation task, and Shutdown
NextDrain ==
    \/ AppStartStateMgr
    \/ AppStartBroker
    \/ \E uid \in UIDs : AppTap(uid)
    \/ \E result \in ValidationResults, accounts \in AccountLists, t \in Times :
            validateUIDs(result, accounts, t)
    \/ Shutdown

SpecDrain == Init /\ [][NextDrain]_vars

----------------------------------------------------------------------------
\* Client.doWithRetry on its own: a client built with a retry count and a
\* retry delay makes one call; each c.do fails or succeeds; the caller may
\* cancel the context at any moment of the call.
MaxRetry == 2           \* ClientConfig.RetryCount is in 0..MaxRetry
RetryCounts == 0..MaxRetry
RetryDelays == {0, 1}   \* no delay, or some delay

\* the loop condition `attempt <= c.retryCount`
MoreAttemptsOneMore(attempt, retryCount) ==
    attempt <= retryCount + 1

MoreAttempts(attempt, retryCount) ==
    attempt <= retryCount

\* NewClient(config) and the call of doWithRetry: attempt := 0
RetryCall(count, delay) ==
    /\ retry.pc = "none"
    /\ retry' = [retry EXCEPT !.pc = "test", !.retryCount = count,
                              !.retryDelay = delay, !.attempt = 0]
    /\ UNCHANGED <<OtherVars, regVars, powerVars, runVars, issued>>
    /\ UNCHANGED <<inFlight, recorder, reader>>

\* the loop condition, and where it leads: the first attempt at once, a
\* later attempt through the select, the final error after the loop.
\* time.After(0) may or may not have a value ready when the select looks;
\* of several ready cases the select takes any.
RetryLoopTest ==
    /\ retry.pc = "test"
    /\ IF ~MoreAttempts(retry.attempt, retry.retryCount)
       THEN retry' = [retry EXCEPT !.pc = "returned",
                          !.ret = [err |-> "all retry attempts failed",
                                   cause |-> retry.lastErr]]
       ELSE IF retry.attempt = 0
       THEN retry' = [retry EXCEPT !.pc = "do"]
       ELSE \E timerReady \in (IF retry.retryDelay = 0 THEN BOOLEAN
                               ELSE {FALSE}) :
              LET ready == selectCases(retry.ctxDone, timerReady) IN
              IF ready = {}
              THEN retry' = [retry EXCEPT !.pc = "select", !.woken = "none"]
              ELSE \E c \in ready :
                     retry' = [retry EXCEPT !.pc = "select", !.woken = c]
    /\ UNCHANGED <<OtherVars, regVars, powerVars, runVars, issued>>
    /\ UNCHANGED <<inFlight, recorder, reader>>

\* the caller cancels ctx: a goroutine blocked in the select is woken by
\* ctx.Done()
RetryCancel ==
    /\ retry.pc \in {"test", "select", "do"}
    /\ ~retry.ctxDone
    /\ LET blocked == retry.pc = "select" /\ retry.woken = "none" IN
       retry' = [retry EXCEPT !.ctxDone = TRUE,
                     !.woken = IF blocked THEN "done" ELSE @,
                     !.cancelledWaiting = blocked,
                     !.attemptsAtCancel = Len(retry.log)]
    /\ UNCHANGED <<OtherVars, regVars, powerVars, runVars, issued>>
    /\ UNCHANGED <<inFlight, recorder, reader>>

\* the timer of time.After(c.retryDelay) fires and wakes the goroutine
RetryTimerFires ==
    /\ retry.pc = "select"
    /\ retry.woken = "none"
    /\ retry' = [retry EXCEPT !.woken = "tick"]
    /\ UNCHANGED <<OtherVars, regVars, powerVars, runVars, issued>>
    /\ UNCHANGED <<inFlight, recorder, reader>>

\* the select returns: `return ctx.Err()`, or on to the attempt
RetrySelected ==
    /\ retry.pc = "select"
    /\ retry.woken # "none"
    /\ retry' = IF retry.woken = "done"
                THEN [retry EXCEPT !.pc = "returned",
                          !.ret = [err |-> CtxCanceled, cause |-> NilErr]]
                ELSE [retry EXCEPT !.pc = "do"]
    /\ UNCHANGED <<OtherVars, regVars, powerVars, runVars, issued>>
    /\ UNCHANGED <<inFlight, recorder, reader>>

\* c.do returns: nil ends the call, an error is kept and the loop goes on.
\* A request whose context is done fails with the context's error.
RetryDo(result) ==
    /\ retry.pc = "do"
    /\ result = CtxCanceled <=> retry.ctxDone
    /\ retry' = IF result = NilErr
                THEN [retry EXCEPT !.pc = "returned",
                          !.log = Append(@, result),
                          !.ret = [err |-> NilErr, cause |-> NilErr]]
                ELSE [retry EXCEPT !.pc = "test",
                          !.log = Append(@, result),
                          !.lastErr = result,
                          !.attempt = @ + 1]
    /\ UNCHANGED <<OtherVars, regVars, powerVars, runVars, issued>>
    /\ UNCHANGED <<inFlight, recorder, reader>>

\* the steps of the calling goroutine and of its timer
RetryProgress ==
    \/ RetryLoopTest
    \/ RetryTimerFires
    \/ RetrySelected
    \/ \E result \in DoErrors \cup {NilErr, CtxCanceled} : RetryDo(result)

NextRetry ==
    \/ \E count \in RetryCounts, delay \in RetryDelays :
          RetryCall(count, delay)
    \/ RetryCancel
    \/ RetryLoopTest
    \/ RetryTimerFires
    \/ RetrySelected
    \/ \E result \in DoErrors \cup {NilErr, CtxCanceled} : RetryDo(result)

\* One doWithRetry call.  The calling goroutine is scheduled when it can
\* run, the delay timer fires, and c.do returns (the HTTP client has a
\* timeout).
SpecRetry == Init /\ [][NextRetry]_vars /\ WF_vars(RetryProgress)

----------------------------------------------------------------------------
\* Validation calls in flight.  The Validating callback starts
\* `go app.validateUIDs(uids)` with the UIDs collected at that moment; the
\* goroutine delivers its result whenever the server has answered, whatever
\* the session has done in between.  The callback is taken to have started
\* the goroutine.  Taps arrive in ascending order of identifier.

\* HandleEvent(EventNFCTap, uid) and the Validating callback's dispatch
TapDispatching(uid) ==
    LET r == handleNFCTap(M, subscribers, uid) IN
    /\ PcAtLeast("stateStarted")
    /\ mutex = "unlocked"
    /\ \A i \in 1..Len(collectedUIDs) : collectedUIDs[i] < uid
    /\ Apply("NFCTap", r, r.err)
    /\ errFired' = <<>>
    /\ inFlight' = IF r.n.phase = PhaseValidating
                   THEN inFlight \cup {r.m.collectedUIDs} ELSE inFlight
    /\ UNCHANGED <<subscribers, errorHandlers, appPc, uidHandler>>
    /\ UNCHANGED <<tapVars, regVars>>
    /\ UNCHANGED <<powerVars, runVars, issued, retry, recorder, reader>>

\* Application.validateUIDs(uids) gets the answer and delivers it
ValidationReturns(uids, result, accounts, t) ==
    /\ uids \in inFlight
    /\ mutex = "unlocked"
    /\ IF result = "valid"
       THEN /\ Apply("validateUIDs/valid",
                     handleUIDValidated(M, subscribers, accounts, t),
                     handleUIDValidated(M, subscribers, accounts, t).err)
            /\ errFired' = <<>>
       ELSE LET err == IF result = "error" THEN "network error"
                       ELSE "validation failed" IN
            /\ Apply("validateUIDs/invalid",
                     handleError(M, errorHandlers, err),
                     handleError(M, errorHandlers, err).err)
            /\ errFired' = handleError(M, errorHandlers, err).errs
    /\ inFlight' = inFlight \ {uids}
    /\ UNCHANGED <<subscribers, errorHandlers, appPc, uidHandler>>
    /\ UNCHANGED <<tapVars, regVars>>
    /\ UNCHANGED <<powerVars, runVars, issued, retry, recorder, reader>>

NextStale ==
    \/ AppStartStateMgr
    \/ \E uid \in UIDs : TapDispatching(uid)
    \/ \E uids \in inFlight, result \in ValidationResults,
          accounts \in AccountLists, t \in Times :
            ValidationReturns(uids, result, accounts, t)
    \/ ExternalReset

\* The session, its validation goroutines, and Reset
SpecStale == Init /\ [][NextStale]_vars

----------------------------------------------------------------------------
\* The audio recorder and its wiring to the session.  The application's
\* onStateChange callback calls HandleEvent(EventRecordingComplete) when the
\* new state is Finished and only logs otherwise; its Recording phase
\* callback calls StartRecording.  A goroutine inside a callback holds the
\* lock its caller took: recordLoop holds r.mutex while it notifies
\* Finished, HandleEvent holds m.mutex while the phase callback runs.
MaxDuration == 2        \* maxDuration in periods of recordLoop

\* m.mutex can be taken: no handler is blocked in a callback
StateMutexFree == mutex = "unlocked" /\ recorder.caller = "none"

\* the Manager's part of a step that leaves the session alone
SessionUnchanged ==
    /\ UNCHANGED <<OtherVars, regVars, powerVars, runVars, issued>>
    /\ UNCHANGED <<retry, inFlight, reader>>

\* the Finished notification: onStateChange(StateFinished) runs
\* HandleEvent(EventRecordingComplete, nil)
NotifyFinished ==
    /\ Apply("RecordingComplete", handleRecordingComplete(M, subscribers),
             handleRecordingComplete(M, subscribers).err)
    /\ errFired' = <<>>
    /\ UNCHANGED <<subscribers, errorHandlers, appPc, uidHandler>>
    /\ UNCHANGED <<tapVars, regVars>>
    /\ UNCHANGED <<powerVars, runVars, issued, retry, inFlight, reader>>

\* Recorder.StartRecording, from Lock to the deferred Unlock
StartRecording(r) ==
    IF r.state # AudioStateIdle
    THEN [r EXCEPT !.ret = "recorder not in idle state"]
    ELSE [r EXCEPT !.state = AudioStateRecording, !.elapsed = 0,
                   !.loop = "top", !.started = @ + 1, !.ret = NilErr]

\* a client calls StartRecording
RecStartRecording ==
    /\ recorder.mutex = "free"
    /\ recorder' = StartRecording(recorder)
    /\ SessionUnchanged

\* Recorder.PauseRecording
PauseRecording ==
    /\ recorder.mutex = "free"
    /\ recorder' = IF recorder.state # AudioStateRecording
                   THEN [recorder EXCEPT !.ret = "not recording"]
                   ELSE [recorder EXCEPT !.state = AudioStatePaused,
                                         !.ret = NilErr]
    /\ SessionUnchanged

\* Recorder.ResumeRecording
ResumeRecording ==
    /\ recorder.mutex = "free"
    /\ recorder' = IF recorder.state # AudioStatePaused
                   THEN [recorder EXCEPT !.ret = "not paused"]
                   ELSE [recorder EXCEPT !.state = AudioStateRecording,
                                         !.resumed = TRUE, !.ret = NilErr]
    /\ SessionUnchanged

\* Recorder.StopRecording; its Finished notification runs under r.mutex
StopRecording ==
    /\ recorder.mutex = "free"
    /\ StateMutexFree
    /\ IF recorder.state # AudioStateRecording
       THEN /\ recorder' = [recorder EXCEPT !.ret = "not recording"]
            /\ SessionUnchanged
       ELSE /\ NotifyFinished
            /\ recorder' = [recorder EXCEPT !.state = AudioStateFinished,
                                            !.finished = @ + 1,
                                            !.completed = @ \/ lastRet' = NilErr,
                                            !.ret = NilErr]

\* recordLoop: Lock, look at the state and at the time.  On reaching
\* maxDuration the state becomes Finished and the notification is made
\* with r.mutex held.
LoopCheck ==
    /\ recorder.loop = "top"
    /\ recorder.mutex = "free"
    /\ recorder' =
          IF recorder.state # AudioStateRecording
          THEN [recorder EXCEPT !.loop = "exited"]
          ELSE IF recorder.elapsed >= MaxDuration
          THEN [recorder EXCEPT !.state = AudioStateFinished,
                                !.finished = @ + 1,
                                !.mutex = "loop", !.loop = "notify"]
          ELSE [recorder EXCEPT !.loop = "sleep"]
    /\ SessionUnchanged

\* recordLoop inside the notification: HandleEvent takes m.mutex, runs,
\* returns; recordLoop unlocks r.mutex and returns
LoopNotify ==
    /\ recorder.loop = "notify"
    /\ StateMutexFree
    /\ NotifyFinished
    /\ recorder' = [recorder EXCEPT !.mutex = "free", !.loop = "exited",
                                  !.completed = @ \/ lastRet' = NilErr]

\* recordLoop after time.Sleep: the samples are appended under r.mutex
LoopWake ==
    /\ recorder.loop = "sleep"
    /\ recorder.mutex = "free"
    /\ recorder' = [recorder EXCEPT !.loop = "top"]
    /\ SessionUnchanged

\* time passes since recordingStart, paused or not
RecElapse ==
    /\ recorder.state \in {AudioStateRecording, AudioStatePaused}
    /\ recorder.elapsed < MaxDuration
    /\ recorder' = [recorder EXCEPT !.elapsed = @ + 1]
    /\ SessionUnchanged

RecordLoop == LoopCheck \/ LoopNotify \/ LoopWake

NextRecorder ==
    \/ RecStartRecording
    \/ PauseRecording
    \/ ResumeRecording
    \/ StopRecording
    \/ LoopCheck
    \/ LoopNotify
    \/ LoopWake
    \/ RecElapse

\* The recorder driven by the clients of its API.  recordLoop runs while it
\* can, and time passes.
SpecRecorder ==
    Init /\ [][NextRecorder]_vars /\ WF_vars(RecordLoop) /\ WF_vars(RecElapse)

\* HandleEvent(EventNFCTap, uid)
RecTap(uid) ==
    /\ PcAtLeast("stateStarted")
    /\ StateMutexFree
    /\ \A i \in 1..Len(collectedUIDs) : collectedUIDs[i] < uid
    /\ TapReceived(uid)

\* HandleEvent(EventUIDValidated, accounts) up to the Recording phase
\* callback's call of StartRecording, m.mutex held
RecValidated(accounts, t) ==
    LET r == handleUIDValidated(M, subscribers, accounts, t) IN
    /\ StateMutexFree
    /\ Apply("UIDValidated", r, r.err)
    /\ errFired' = <<>>
    /\ recorder' = IF r.err = NilErr
                   THEN [recorder EXCEPT !.caller = "callback"]
                   ELSE recorder
    /\ UNCHANGED <<subscribers, errorHandlers, appPc, uidHandler>>
    /\ UNCHANGED <<tapVars, regVars>>
    /\ UNCHANGED <<powerVars, runVars, issued, retry, inFlight, reader>>

\* the callback gets r.mutex: StartRecording runs, the callback and
\* HandleEvent return
CallerStartRecording ==
    /\ recorder.caller = "callback"
    /\ recorder.mutex = "free"
    /\ recorder' = [StartRecording(recorder) EXCEPT !.caller = "none"]
    /\ SessionUnchanged

\* Manager.Reset by an external caller
RecReset ==
    /\ StateMutexFree
    /\ ExternalReset

NextRecording ==
    \/ AppStartStateMgr
    \/ \E uid \in UIDs : RecTap(uid)
    \/ \E accounts \in AccountLists, t \in Times : RecValidated(accounts, t)
    \/ CallerStartRecording
    \/ RecReset
    \/ LoopCheck
    \/ LoopNotify
    \/ LoopWake
    \/ RecElapse

\* The session wired to the recorder
SpecRecording == Init /\ [][NextRecording]_vars

----------------------------------------------------------------------------
\* The polling NFC reader.  Start runs `go r.readLoop(ctx)`; each readLoop
\* has its own 100 ms ticker and leaves only through ctx.Done().
\* pollForTag returns "" (no tag), so handleTag is not reached.
MaxLoops == 2           \* readLoop goroutines alive at once
MaxPolls == 3           \* ticks counted per readLoop

\* Reader.Start(ctx)
ReaderStart ==
    /\ Len(reader.loops) < MaxLoops
    /\ reader' = IF reader.isActive
                 THEN [reader EXCEPT !.ret = "reader already active"]
                 ELSE [reader EXCEPT !.isActive = TRUE,
                                     !.loops = Append(@, 0),
                                     !.ret = NilErr]
    /\ UNCHANGED <<OtherVars, regVars, powerVars, runVars, issued>>
    /\ UNCHANGED <<retry, inFlight, recorder>>

\* Reader.Stop
ReaderStop ==
    /\ reader' = IF ~reader.isActive
                 THEN [reader EXCEPT !.ret = "reader not active"]
                 ELSE [reader EXCEPT !.isActive = FALSE, !.ret = NilErr]
    /\ UNCHANGED <<OtherVars, regVars, powerVars, runVars, issued>>
    /\ UNCHANGED <<retry, inFlight, recorder>>

\* readLoop i takes a tick: pollForTag, no tag, checkPowerTimeout
ReadLoopPoll(i) ==
    /\ i \in 1..Len(reader.loops)
    /\ "tick" \in selectCases(ctxDone, TRUE)
    /\ reader.loops[i] < MaxPolls
    /\ reader' = [reader EXCEPT !.loops[i] = @ + 1,
                                !.servedInactive = @ \/ ~reader.isActive]
    /\ UNCHANGED <<OtherVars, regVars, powerVars, runVars, issued>>
    /\ UNCHANGED <<retry, inFlight, recorder>>

\* readLoop i takes ctx.Done() and returns
ReadLoopExit(i) ==
    /\ i \in 1..Len(reader.loops)
    /\ "done" \in selectCases(ctxDone, TRUE)
    /\ reader' = [reader EXCEPT !.loops =
                        [j \in 1..(Len(@) - 1) |->
                            IF j < i THEN @[j] ELSE @[j + 1]]]
    /\ UNCHANGED <<OtherVars, regVars, powerVars, runVars, issued>>
    /\ UNCHANGED <<retry, inFlight, recorder>>

NextReader ==
    \/ AppStartStateMgr
    \/ AppStartBroker
    \/ ReaderStart
    \/ ReaderStop
    \/ \E i \in 1..MaxLoops : ReadLoopPoll(i)
    \/ \E i \in 1..MaxLoops : ReadLoopExit(i)
    \/ CancelCtx

\* The reader driven by Start and Stop calls, in the application whose
\* context it was started with
SpecReader == Init /\ [][NextReader]_vars

----------------------------------------------------------------------------
\* Properties

Range(seq) == {seq[i] : i \in 1..Len(seq)}
NoDuplicates(seq) == \A i, j \in 1..Len(seq) : seq[i] = seq[j] => i = j

\* C1: a tap of a new identifier accepted in CollectingUIDs moves the phase
\* to Validating exactly when it is the 3rd collected identifier, and leaves
\* it CollectingUIDs otherwise; the Validating notification is fired by that
\* tap and by nothing else, at most once per session.
C1_ThirdTapEntersValidating ==
    /\ [](validatingNotified <= 1)
    /\ [][\A uid \in UIDs :
            (currentPhase = PhaseCollectingUIDs
                /\ uid \notin Range(collectedUIDs) /\ TapReceived(uid))
            => /\ collectedUIDs' = Append(collectedUIDs, uid)
               /\ IF Len(collectedUIDs) = RequiredUIDs - 1
                  THEN /\ currentPhase' = PhaseValidating
                       /\ validatingNotified' = validatingNotified + 1
                  ELSE /\ currentPhase' = PhaseCollectingUIDs
                       /\ validatingNotified' = validatingNotified]_vars
    /\ [][validatingNotified' > validatingNotified
            => /\ \E uid \in UIDs : TapReceived(uid)
               /\ Len(collectedUIDs) = RequiredUIDs - 1
               /\ currentPhase = PhaseCollectingUIDs
               /\ currentPhase' = PhaseValidating]_vars

C1_Witness ==
    /\ lastRet = NilErr
    /\ currentPhase = PhaseValidating
    /\ Len(collectedUIDs) = RequiredUIDs
    /\ validatingNotified = 1

\* C2: collectedUIDs never holds more than 3 identifiers and never holds an
\* identifier twice, whatever calls are made.
C2_CollectedBounded ==
    /\ Len(collectedUIDs) <= RequiredUIDs
    /\ NoDuplicates(collectedUIDs)

\* C3: in the wired application the call that delivers the third distinct
\* tap returns and releases the Manager's lock, so the lock is never held
\* forever.
C3_ThirdTapReleasesLock ==
    currentPhase = PhaseValidating
        => (mutex = "unlocked" /\ lastRet # Blocked)

\* C4: in the wired application, once the session is in Validating a
\* validateUIDs task has been dispatched with exactly the collected UIDs, in
\* insertion order.
C4_ValidationDispatched ==
    currentPhase = PhaseValidating => collectedUIDs \in validations

\* C5: a tap of an already collected identifier in CollectingUIDs returns
\* "duplicate UID", changes no field of the session and fires no callback;
\* no identifier is ever collected twice.
C5_DuplicateRejected ==
    /\ [](NoDuplicates(collectedUIDs))
    /\ [][\A uid \in UIDs :
            (currentPhase = PhaseCollectingUIDs
                /\ uid \in Range(collectedUIDs) /\ TapReceived(uid))
            => /\ lastRet' = ErrDuplicate
               /\ UNCHANGED <<sessionVars, validatingNotified, mutex>>
               /\ fired' = <<>>]_vars

C5_Witness ==
    /\ lastRet = ErrDuplicate
    /\ currentPhase = PhaseCollectingUIDs
    /\ Len(collectedUIDs) >= 1

\* C6: a tap outside CollectingUIDs, a validation success outside Validating
\* and a recording completion outside RecordingMessage return the
\* wrong-phase error, change no field of the session and fire no callback.
C6_WrongPhaseRejected ==
    [][/\ \A uid \in UIDs :
            (currentPhase # PhaseCollectingUIDs
                /\ TapReceived(uid))
            => /\ lastRet' = ErrNotCollecting
               /\ UNCHANGED <<sessionVars, validatingNotified, mutex>>
               /\ fired' = <<>>
       /\ \A accounts \in AccountLists, t \in Times :
            (currentPhase # PhaseValidating
                /\ UIDValidated(accounts, t))
            => /\ lastRet' = ErrNotValidating
               /\ UNCHANGED <<sessionVars, validatingNotified, mutex>>
               /\ fired' = <<>>
       /\ (currentPhase # PhaseRecordingMessage /\ RecordingComplete)
            => /\ lastRet' = ErrNotRecording
               /\ UNCHANGED <<sessionVars, validatingNotified, mutex>>
               /\ fired' = <<>>]_vars

C6_Witness ==
    /\ lastRet = ErrNotValidating
    /\ currentPhase = PhaseCollectingUIDs
    /\ Len(collectedUIDs) = 2

\* C7: every change of phase is either the step to the next phase in the
\* order Initial, CollectingUIDs, Validating, RecordingMessage, Complete
\* (into Validating with 3 UIDs collected, into RecordingMessage with a
\* bondID), or a Reset.
C7_PhaseOrder ==
    [][currentPhase' # currentPhase
        => \/ Reset
           \/ /\ currentPhase' = currentPhase + 1
              /\ currentPhase' = PhaseValidating
                    => Len(collectedUIDs') = RequiredUIDs
              /\ currentPhase' = PhaseRecordingMessage => bondID' # NoBondID]_vars

\* C8: bondID is empty while the phase is Initial, CollectingUIDs or
\* Validating; it is assigned only by the validation success that enters
\* RecordingMessage, and afterwards changed only by Reset.
C8_BondIDLifecycle ==
    /\ [](currentPhase \in {PhaseInitial, PhaseCollectingUIDs, PhaseValidating}
            => bondID = NoBondID)
    /\ [][bondID' # bondID
            => \/ Reset
               \/ /\ \E accounts \in AccountLists, t \in Times :
                        UIDValidated(accounts, t)
                  /\ bondID = NoBondID
                  /\ currentPhase = PhaseValidating
                  /\ currentPhase' = PhaseRecordingMessage]_vars

\* C9: Reset, from any phase, leaves the session in CollectingUIDs with no
\* collected UIDs, no accounts and no bondID; from there the third new
\* distinct tap leads to Validating again.
C9_ResetRearms ==
    /\ [][Reset => /\ currentPhase' = PhaseCollectingUIDs
                /\ collectedUIDs' = <<>>
                /\ validAccounts' = <<>>
                /\ bondID' = NoBondID
                /\ validatingNotified' = 0]_vars
    /\ [][\A uid \in UIDs :
            (rearmed /\ validatingNotified = 0
                /\ currentPhase = PhaseCollectingUIDs
                /\ Len(collectedUIDs) = RequiredUIDs - 1
                /\ uid \notin Range(collectedUIDs) /\ TapReceived(uid))
            => currentPhase' = PhaseValidating]_vars

C9_Witness ==
    /\ rearmed
    /\ currentPhase = PhaseValidating
    /\ validatingNotified = 1
    /\ bondID = NoBondID
    /\ validAccounts = <<>>

\* C10: an error event, in any phase, invokes every registered error
\* handler once, in registration order, with that error, and changes no
\* field of the session.
C10_ErrorForwarded ==
    [][\A err \in Errors :
        ErrorEvent(err)
        => /\ errFired' = [i \in 1..Len(errorHandlers)
                                |-> <<errorHandlers[i], err>>]
           /\ UNCHANGED <<sessionVars, validatingNotified, mutex>>
           /\ fired' = <<>>
           /\ lastRet' = NilErr]_vars

C10_Witness ==
    /\ lastRet = NilErr
    /\ currentPhase = PhaseValidating
    /\ Len(errorHandlers) >= 1
    /\ Len(errFired) = Len(errorHandlers)

\* C11: with one validation outcome delivered per entry into Validating,
\* once a failure has been delivered the session stays in Validating, with
\* its collected UIDs and no bondID, until Reset is invoked; it reaches
\* neither RecordingMessage nor Complete.
C11_StuckAfterValidationFailure ==
    /\ [](outcome = "failed"
            => /\ currentPhase = PhaseValidating
               /\ bondID = NoBondID)
    /\ [][(outcome = "failed" /\ outcome' # "failed") => Reset]_vars

C11_Witness ==
    /\ outcome = "failed"
    /\ currentPhase = PhaseValidating
    /\ lastRet = ErrNotRecording

\* C12: Start moves Initial to CollectingUIDs; called in any other phase it
\* changes neither the phase nor any other field of the session.  A tap in
\* Initial, before Start, is rejected with "not collecting UIDs".
C12_StartOnlyFromInitial ==
    /\ [][Start
            => IF currentPhase = PhaseInitial
               THEN /\ currentPhase' = PhaseCollectingUIDs
                    /\ UNCHANGED <<collectedUIDs, validAccounts, bondID>>
               ELSE UNCHANGED sessionVars]_vars
    /\ [][\A uid \in UIDs :
            (currentPhase = PhaseInitial /\ TapReceived(uid))
            => /\ lastRet' = ErrNotCollecting
               /\ UNCHANGED sessionVars]_vars

Min(a, b) == IF a < b THEN a ELSE b

\* C13: concurrent taps with pairwise-distinct uids are applied one at a
\* time in the order they acquire the lock: the first 3 to acquire it are
\* appended in that order and none is lost, every later one returns "not
\* collecting UIDs", and a call still waiting for the lock can acquire it.
C13_ConcurrentTapsSerialized ==
    /\ Len(collectedUIDs) = Min(Len(tapLog), RequiredUIDs)
    /\ \A i \in 1..Len(tapLog) :
          IF i <= RequiredUIDs
          THEN collectedUIDs[i] = tapLog[i].uid
          ELSE tapLog[i].ret = ErrNotCollecting
    /\ tapWaiting # {} => mutex # "held"

\* C14: the registry holds one record per deviceID.  A registration of a
\* known deviceID leaves the number of devices unchanged (of an unknown one
\* adds one), leaves every other record as it was, and makes the record
\* carry the type, firmware and ip of that registration, status online and
\* lastSeen equal to the time of the registration.
C14_RegisterUpserts ==
    [][\A id \in DeviceIDs, reg \in Registrations :
        RegisterMsg(id, reg)
        => /\ DOMAIN devices' = DOMAIN devices \cup {id}
           /\ Cardinality(DOMAIN devices') =
                IF id \in DOMAIN devices THEN Cardinality(DOMAIN devices)
                ELSE Cardinality(DOMAIN devices) + 1
           /\ devices'[id].type = reg.type
           /\ devices'[id].firmware = reg.firmware
           /\ devices'[id].ip = reg.ip
           /\ devices'[id].status = "online"
           /\ devices'[id].lastSeen = now
           /\ \A d \in DOMAIN devices : d # id => devices'[d] = devices[d]]_vars

C14_Witness ==
    /\ DOMAIN devices = DeviceIDs
    /\ lastMsg["readerA"].topic = TopicRegister
    /\ lastMsg["readerA"].known
    /\ devices["readerA"].firmware = "1.1.0"
    /\ devices["readerA"].status = "online"
    /\ devices["readerA"].lastSeen = now
    /\ now >= 1

\* C15: a status message for a deviceID the registry does not hold creates
\* no device and changes no device; for a known deviceID it sets status,
\* signal strength and lastSeen of that device and nothing else.
C15_StatusUpdatesKnownOnly ==
    [][\A id \in DeviceIDs, status \in Statuses, rssi \in RSSIs :
        StatusMsg(id, status, rssi)
        => /\ DOMAIN devices' = DOMAIN devices
           /\ \A d \in DOMAIN devices :
                devices'[d] =
                    IF d = id
                    THEN [type |-> devices[d].type,
                          firmware |-> devices[d].firmware,
                          ip |-> devices[d].ip,
                          lastSeen |-> now, status |-> status, rssi |-> rssi]
                    ELSE devices[d]]_vars

C15_Witness ==
    /\ DOMAIN devices = {"readerA"}
    /\ lastMsg["readerA"].topic = TopicStatus
    /\ devices["readerA"].status = "offline"
    /\ devices["readerA"].rssi = -60
    /\ devices["readerA"].lastSeen = now
    /\ now >= 1

\* the instant of the last sweep that ran (0 when none has)
LastSweepAt == nextSweep - SweepPeriod

\* C16: with the 60 s timeout and the 30 s sweep period, a device whose last
\* message was a register at time t is offline once a sweep has run later
\* than t + 60 s; a device whose last message was a register or an online
\* status update at time u is online at every time up to u + 60 s, whatever
\* sweeps ran (so one registered at t and updated at t + 40 s is online at
\* t + 61 s).
C16_SweepAfterTimeout ==
    \A d \in DOMAIN devices :
        /\ (lastMsg[d].topic = TopicRegister
                /\ LastSweepAt > devices[d].lastSeen + LivenessTimeout)
            => devices[d].status = "offline"
        /\ ((lastMsg[d].topic = TopicRegister
                \/ (lastMsg[d].topic = TopicStatus
                        /\ lastMsg[d].status = "online"))
                /\ now <= devices[d].lastSeen + LivenessTimeout)
            => devices[d].status = "online"

C16_Witness ==
    /\ DOMAIN devices = DeviceIDs
    /\ lastMsg["readerA"].topic = TopicRegister
    /\ devices["readerA"].lastSeen = 1
    /\ devices["readerA"].status = "offline"
    /\ lastMsg["readerB"].topic = TopicStatus
    /\ devices["readerB"].lastSeen = 4
    /\ devices["readerB"].status = "online"
    /\ LastSweepAt = 9
    /\ now = 9

\* C17: a tap message from a registered device sets that device's lastSeen
\* to the time of the message and changes no other field of it, so that
\* the sweeper, which compares lastSeen, does not mark a tapping device
\* offline.
C17_TapRefreshesLiveness ==
    [][\A id \in DeviceIDs, uid \in UIDs :
        (id \in DOMAIN devices /\ UIDMsg(id, uid))
        => devices' = [devices EXCEPT ![id].lastSeen = now]]_vars

\* C18: the list returned by GetDevices is a snapshot: a record read through
\* it has, after any later register, status or sweep operation, the field
\* values it had when the list was returned.  (A listed pointer that is
\* still the map's reads the map's record; one replaced by a registration
\* reads the old record, which nothing writes any more.)
C18_ListIsSnapshot ==
    [][\A d \in DOMAIN listed :
        (listed[d] = "live" /\ d \in DOMAIN listed' /\ listed'[d] = "live")
        => devices'[d] = devices[d]]_vars

\* C19: every fiz/uid message received once the broker has subscribed to
\* the topic is handed to the session as one tap; none is dropped.
C19_NoTapDropped ==
    lastRet # Dropped

\* The session and the results obtained by applying the first n logged taps
\* to the started session, one after the other
StartedSession ==
    [currentPhase |-> PhaseCollectingUIDs, collectedUIDs |-> <<>>,
     validAccounts |-> <<>>, bondID |-> NoBondID]

RECURSIVE ReplayTaps(_)
ReplayTaps(n) ==
    IF n = 0 THEN [m |-> StartedSession, rets |-> <<>>]
    ELSE LET p == ReplayTaps(n - 1)
             r == handleNFCTap(p.m, subscribers, tapLog[n].uid)
         IN [m |-> r.m, rets |-> Append(p.rets, r.err)]

\* C20: the result of every forwarded tap and the session state are a
\* function of the sequence of tap uids alone: whatever the registry holds
\* (the sender registered, unregistered or offline), they are what the
\* taps give when applied in order to the started session.
C20_TapsIgnoreRegistry ==
    uidHandler
        => /\ M = ReplayTaps(Len(tapLog)).m
           /\ \A i \in 1..Len(tapLog) :
                tapLog[i].ret = ReplayTaps(Len(tapLog)).rets[i]

C20_Witness ==
    /\ "readerA" \in DOMAIN devices
    /\ devices["readerA"].status = "offline"
    /\ lastMsg["readerA"].topic = TopicUID
    /\ Len(tapLog) = MaxTaps
    /\ tapLog[RequiredUIDs].ret = NilErr
    /\ currentPhase = PhaseValidating

\* C21: every tap the broker forwards to the session is recorded as activity
\* on the power manager: after the handler ran, lastActivity is the time of
\* the tap and the power state is Active, whatever the session returned.
C21_TapRecordsActivity ==
    [][(uidHandler /\ \E uid \in UIDs : MQTTUidMessage(uid))
        => lastActivity' = now /\ powerState' = StateActive]_vars

\* C22: RecordActivity called while the power state is DeepSleep sets the
\* state to Active and lastActivity to the time of the call.
C22_ActivityEndsDeepSleep ==
    [][(PowerRecordActivity /\ powerState = StateDeepSleep)
        => powerState' = StateActive /\ lastActivity' = now]_vars

\* C22: RecordActivity has just been called on a manager in DeepSleep, some
\* time after construction.
C22_Witness ==
    /\ powerOp = [op |-> "RecordActivity", from |-> StateDeepSleep]
    /\ powerState = StateActive
    /\ lastActivity = now
    /\ now > 0

\* C23: in every reachable state, a manager in DeepSleep has seen no
\* activity for at least idleTimeout + deepSleepDelay, and a manager in Idle
\* none for at least idleTimeout.
C23_StateFollowsIdleTime ==
    /\ powerState = StateDeepSleep
          => now - lastActivity >= IdleTimeout + DeepSleepDelay
    /\ powerState = StateIdle => now - lastActivity >= IdleTimeout

\* C24 as stated: every step that takes the power state out of DeepSleep is
\* a WakeUp call, which sets Active and resets lastActivity.
C24_OnlyWakeUpLeavesDeepSleep ==
    [][(powerState = StateDeepSleep /\ powerState' # StateDeepSleep)
        => /\ powerOp'.op = "WakeUp"
           /\ powerState' = StateActive
           /\ lastActivity' = now]_vars

\* C24 amended: WakeUp called in DeepSleep sets Active and resets
\* lastActivity, and every step that takes the power state out of DeepSleep
\* is a WakeUp or a RecordActivity call, never the periodic check or a
\* timer; the state it leaves is Active with lastActivity the current time.
C24_OnlyCallsLeaveDeepSleep ==
    [][/\ (PowerWakeUp /\ powerState = StateDeepSleep)
            => powerState' = StateActive /\ lastActivity' = now
       /\ (powerState = StateDeepSleep /\ powerState' # StateDeepSleep)
            => /\ powerOp'.op \in {"WakeUp", "RecordActivity"}
               /\ powerState' = StateActive
               /\ lastActivity' = now]_vars

\* C24: WakeUp has just been called on a manager in DeepSleep.
C24_Witness ==
    /\ powerOp = [op |-> "WakeUp", from |-> StateDeepSleep]
    /\ powerState = StateActive
    /\ lastActivity = now
    /\ now > 0

\* C25: RecordActivity always sets lastActivity to the current time; with a
\* callback registered it notifies once, with Active, when the state before
\* the call was not Active, and not at all when it was Active.
C25_ActivityNotifiesOnChange ==
    [][PowerRecordActivity
        => /\ lastActivity' = now
           /\ notified' = IF powerState # StateActive /\ onStateChange
                           THEN <<StateActive>> ELSE <<>>]_vars

\* C25: RecordActivity has just been called on a manager that was Idle,
\* with a callback registered, and notified it of Active.
C25_Witness ==
    /\ powerOp = [op |-> "RecordActivity", from |-> StateIdle]
    /\ onStateChange
    /\ notified = <<StateActive>>
    /\ lastActivity = now

\* C26: once Shutdown has returned, the sweeper runs no sweep and the power
\* monitor runs no idle check, and no timer changes the power state.
C26_ShutdownStopsPeriodicTasks ==
    [][shutdownReturned
        => ~(Sweep \/ PowerCheckIdle \/ PowerTimerFires)]_vars

C28_StopWithinOneTick ==
    /\ lateWork.sweeper <= 1
    /\ lateWork.monitor <= 1
    /\ lateWork.elapsed >= 1 => sweeperStopped /\ monitorStopped

\* C28: the context was cancelled while both tickers had a tick waiting; each
\* task served it and returned, and time went on.
C28_Witness ==
    /\ ctxDone
    /\ lateWork.sweeper = 1
    /\ lateWork.monitor = 1
    /\ sweeperStopped
    /\ monitorStopped
    /\ lateWork.elapsed >= 1

\* C29: a register payload that is undecodable or lacks a device_id leaves
\* the device map unchanged, and the map never holds a device whose
\* deviceID is empty.
C29_BadRegisterDropped ==
    [][/\ \A payload \in RegisterPayloads, reg \in Registrations :
            (/\ RegisterPayload(payload, reg)
             /\ ~payload.json \/ "device_id" \notin DOMAIN payload.fields)
                => devices' = devices
       /\ "" \notin DOMAIN devices']_vars

\* C30: two sessions that collected the same UID sequence and whose
\* validation completed at different times have different bondIDs.
C30_BondIDsDifferInTime ==
    \A i, j \in 1..Len(issued) :
        (issued[i].uids = issued[j].uids /\ issued[i].at # issued[j].at)
            => issued[i].id # issued[j].id

\* C31: in every reachable state every device of the registry has status
\* online or offline.
C31_StatusOnlineOrOffline ==
    \A d \in DOMAIN devices : devices[d].status \in Statuses

\* C33: a sweep changes nothing but the status of the devices that are
\* online with now - lastSeen strictly greater than the timeout, which it
\* sets to offline; it removes no device, and no step of the registry ever
\* makes the set of known deviceIDs smaller.
C33_SweepFrame ==
    [][/\ Sweep =>
            /\ DOMAIN devices' = DOMAIN devices
            /\ \A d \in DOMAIN devices :
                    devices'[d] =
                        IF devices[d].status = "online"
                            /\ now - devices[d].lastSeen > LivenessTimeout
                        THEN [devices[d] EXCEPT !.status = "offline"]
                        ELSE devices[d]
            /\ lastMsg' = lastMsg
       /\ DOMAIN devices \subseteq DOMAIN devices']_vars

\* C33: a sweep has just marked one device offline and left alone another
\* one that is online exactly at the timeout.
C33_Witness ==
    /\ DOMAIN devices = DeviceIDs
    /\ now = 9
    /\ LastSweepAt = 9
    /\ devices["readerA"].lastSeen = 2
    /\ lastMsg["readerA"].topic = TopicRegister
    /\ devices["readerA"].status = "offline"
    /\ devices["readerB"].lastSeen = 3
    /\ devices["readerB"].status = "online"


C36_DeepSleepOnlyFromIdle ==
    [][powerState' = StateDeepSleep /\ powerState # StateDeepSleep
          => powerState = StateIdle]_vars

\* C38: doWithRetry makes at most retryCount+1 attempts; a successful
\* attempt is the last one and the call returns nil; when every attempt
\* failed the call returns an error that carries the failure of the last
\* attempt; a cancellation that arrives while the call waits between
\* attempts makes it return the context's error with no further attempt;
\* and a call that was made returns.
C38_RetryBounded ==
    /\ [](/\ Len(retry.log) <= retry.retryCount + 1
          /\ \A i \in 1..Len(retry.log) :
                retry.log[i] = NilErr
                    => /\ i = Len(retry.log)
                       /\ retry.pc = "returned"
                       /\ retry.ret.err = NilErr
          /\ (retry.pc = "returned" /\ retry.ret.err = NilErr)
                => (retry.log # <<>> /\ retry.log[Len(retry.log)] = NilErr)
          /\ (retry.pc = "returned"
                /\ retry.ret.err = "all retry attempts failed")
                => /\ Len(retry.log) = retry.retryCount + 1
                   /\ \A i \in 1..Len(retry.log) : retry.log[i] # NilErr
                   /\ retry.ret.cause = retry.log[Len(retry.log)]
          /\ retry.cancelledWaiting
                => /\ Len(retry.log) = retry.attemptsAtCancel
                   /\ retry.pc = "returned" => retry.ret.err = CtxCanceled)
    /\ (retry.pc # "none") ~> (retry.pc = "returned")

C38_Witness ==
    /\ retry.pc = "returned"
    /\ retry.retryCount = MaxRetry
    /\ Len(retry.log) = MaxRetry + 1
    /\ retry.ret.err = "all retry attempts failed"
    /\ retry.ret.cause = "unexpected status code"
    /\ retry.log[1] = "request failed"

C35_NoLockOrderDeadlock ==
    ~(recorder.caller = "callback" /\ recorder.mutex = "loop"
        /\ recorder.loop = "notify")

C39_ResumedRecordingEnds ==
    /\ [](recorder.finished <= 1)
    /\ (recorder.resumed /\ recorder.state = AudioStateRecording)
          ~> (recorder.state # AudioStateRecording)

\* C40: while the reader's context is live, exactly one readLoop runs when
\* the reader is active and none when it is inactive, whatever Start and
\* Stop calls were made; no readLoop polls for an inactive reader.
C40_OneLoopWhileActive ==
    ~ctxDone => /\ Len(reader.loops) = IF reader.isActive THEN 1 ELSE 0
                /\ ~reader.servedInactive
====
